---- MODULE Spec2Model ----
(***************************************************************************)
(* valchemy: write-ahead log service (group commit, segment rotation,      *)
(* recovery) and the sharded storage engine that sits on top of it.        *)
(*                                                                         *)
(* Bytes are naturals 0..255, a file is a sequence of bytes with a durable *)
(* prefix, errors are sequences of strings whose head is the identity that *)
(* errors.Is matches (the %w operand) and whose tail is the message text.  *)
(***************************************************************************)
EXTENDS Naturals, Integers, Sequences, FiniteSets, TLC

(***************************************************************************)
(* Bounds of the model.                                                    *)
(***************************************************************************)
NumThreads == 2
MaxCalls == 2
MaxFaults == 1
NumClosers == 2
MaxFieldLen == 2

Keys == {<<97>>, <<98>>}
Values == {<<49>>, <<50>>}
BatchSizes == {1, 2}
SegmentSizes == {8, 64}

Calls == 1..MaxCalls
Closers == 1..NumClosers

(***************************************************************************)
(* Entry codec: internal/wal/entry                                         *)
(***************************************************************************)
OperationSet == 1
OperationDelete == 2
OperationClear == 3

Entries ==
  {[Operation |-> OperationSet, Key |-> k, Value |-> v] : k \in Keys, v \in Values}
  \cup {[Operation |-> OperationDelete, Key |-> k, Value |-> <<>>] : k \in Keys}
  \cup {[Operation |-> OperationClear, Key |-> <<>>, Value |-> <<>>]}

\* the entries the clients of the concurrent specification write: one Set and
\* one Clear, of different encoded sizes
WalEntries ==
  {[Operation |-> OperationSet, Key |-> <<97>>, Value |-> <<49>>],
   [Operation |-> OperationClear, Key |-> <<>>, Value |-> <<>>]}

\* the four bytes of n with the most significant byte first
PutUint32BigEndian(n) ==
  << (n \div 16777216) % 256, (n \div 65536) % 256, (n \div 256) % 256, n % 256 >>

\* binary.LittleEndian.PutUint32
PutUint32(n) ==
  << n % 256, (n \div 256) % 256, (n \div 65536) % 256, (n \div 16777216) % 256 >>

\* binary.LittleEndian.Uint32
Uint32(b) == b[1] + 256 * b[2] + 65536 * b[3] + 16777216 * b[4]

\* Entry.WriteTo: the bytes handed to the writer, in order
WriteTo(e) ==
  <<e.Operation>> \o PutUint32(Len(e.Key)) \o e.Key
    \o (IF e.Operation = OperationSet
        THEN PutUint32(Len(e.Value)) \o e.Value
        ELSE <<>>)

Nil == <<>>
EOF == <<"EOF">>
ErrUnexpectedEOF == <<"unexpected EOF">>

\* io.ReadFull(r, buf) with len(buf) = n on the bytes of data after pos:
\* nil when n bytes are there (also when n = 0), io.EOF when none is there,
\* io.ErrUnexpectedEOF when only some are there
ReadFull(data, pos, n) ==
  IF Len(data) - pos >= n THEN [err |-> Nil, bytes |-> SubSeq(data, pos + 1, pos + n)]
  ELSE IF Len(data) - pos = 0 THEN [err |-> EOF, bytes |-> <<>>]
  ELSE [err |-> ErrUnexpectedEOF, bytes |-> <<>>]

\* Entry.ReadFrom / ReadEntry on the bytes of data after pos
ReadEntry(data, pos) ==
  LET op == ReadFull(data, pos, 1) IN
  IF op.err # Nil THEN [err |-> op.err, pos |-> pos] ELSE
  LET kl == ReadFull(data, pos + 1, 4) IN
  IF kl.err # Nil THEN [err |-> kl.err, pos |-> pos] ELSE
  LET keyLen == Uint32(kl.bytes)
      key == ReadFull(data, pos + 5, keyLen) IN
  IF key.err # Nil THEN [err |-> key.err, pos |-> pos] ELSE
  IF op.bytes[1] # OperationSet
  THEN [err |-> Nil, pos |-> pos + 5 + keyLen,
        entry |-> [Operation |-> op.bytes[1], Key |-> key.bytes, Value |-> <<>>]]
  ELSE
  LET vl == ReadFull(data, pos + 5 + keyLen, 4) IN
  IF vl.err # Nil THEN [err |-> vl.err, pos |-> pos] ELSE
  LET valueLen == Uint32(vl.bytes)
      val == ReadFull(data, pos + 9 + keyLen, valueLen) IN
  IF val.err # Nil THEN [err |-> val.err, pos |-> pos] ELSE
  [err |-> Nil, pos |-> pos + 9 + keyLen + valueLen,
   entry |-> [Operation |-> op.bytes[1], Key |-> key.bytes, Value |-> val.bytes]]

RECURSIVE ReadLoop(_, _, _)
ReadLoop(data, pos, acc) ==
  LET r == ReadEntry(data, pos) IN
  IF r.err = EOF THEN [err |-> Nil, entries |-> acc]
  ELSE IF r.err # Nil THEN [err |-> <<"failed to read entry from segment">> \o r.err,
                            entries |-> <<>>]
  ELSE ReadLoop(data, r.pos, Append(acc, r.entry))

\* segment.ReadSegmentEntries on the content of one file
ReadSegmentEntries(data) == ReadLoop(data, 0, <<>>)

(***************************************************************************)
(* State                                                                   *)
(***************************************************************************)
VARIABLES
  cfg,          \* config.WALConfig: FlushingBatchSize, MaxSegmentSizeBytes
  batch,        \* Service.batch: entries, each tagged with the call that wrote it
  flushDone,    \* Service.flushDone: the waiters' channels (one per Write call)
  timerActive,  \* Service.timerActive
  flushTimer,   \* Service.flushTimer: 0 is nil, else the timer's id
  quit,         \* Service.quit: "chan" or "nil"
  cur,          \* Service.currentSegment
  mu,           \* Service.batchMu: <<>> when free, else its holder
  quitClosed,   \* whether the quit channel has been closed
  timers,       \* the time.Timer objects: "none", "armed", "stopped", "fired"
  chans,        \* content of each call's done channel (capacity 1)
  disk,         \* the data directory: segment id -> file content and durable length
  clock,        \* time.Now().UnixNano() of the next reading
  faults,       \* I/O failures the environment may still inject
  calls,        \* the engine calls: state, entry, result of Write, result of the call
  tg,           \* the handleFlushTimer goroutines, one per timer
  closer,       \* the callers of Service.Close (late: called after a Close returned)
  partitions,   \* Engine.partitions
  phase,        \* "new" (inside app.New), "running", "panicked", "restarted"
  written,      \* history: every successful segment.Write (call, segment, offset, length)
  failedFlush,  \* history: every flushBatch that returned an error, with the calls waiting on it
  oldPartitions \* history: the partitions of the engine that was shut down

\* the state of the WAL service, of the engine on top of it and of their files
walVars == << cfg, batch, flushDone, timerActive, flushTimer, quit, cur, mu, quitClosed,
              timers, chans, disk, clock, faults, calls, tg, closer, partitions, phase,
              written, failedFlush, oldPartitions >>

\* One entry on its way through the codec: Entry.WriteTo appends it to a segment
\* file, a crash may cut the file inside it, ReadSegmentEntries reads the file.
VARIABLES
  codecEntry,   \* the entry
  codecFile,    \* the bytes of the segment file
  codecStart,   \* where the entry starts in the file
  codecCount,   \* the count WriteTo returned
  codecRead,    \* what ReadEntry at codecStart and ReadSegmentEntries returned
  codecSt       \* "idle", "new", "written", "cut", "read", "readcut"

codecVars == << codecEntry, codecFile, codecStart, codecCount, codecRead, codecSt >>

\* One connection to compute.Handler: a command is handled when the previous
\* one has been answered.
VARIABLES
  replicaType,  \* Handler.replicaType
  hcmd,         \* the command in handleCommand, or the last one answered
  hst,          \* "idle", "engine" (inside Engine.Set / Delete / Clear), "done"
  hres,         \* what handleCommand returned: response and error
  hcall,        \* the engine call handleCommand makes, 0 if it makes none
  hseq          \* how many commands the handler has taken

handlerVars == << replicaType, hcmd, hst, hres, hcall, hseq >>

\* One call of a function of package replication that turns a segment name
\* into a path of the file system.
VARIABLES
  pWalDir,      \* the walDir argument
  pSegName,     \* the segName argument
  pFs,          \* the regular files of the file system: path -> content
  pRes,         \* what the call returned
  pSt           \* "idle", "new", "validated", "read"

pathVars == << pWalDir, pSegName, pFs, pRes, pSt >>

\* One replication connection: the goroutines of the master's Manager
\* (handleReplicaConnection, monitorWALChanges) and of the replica's
\* (syncWithMaster), their directories and the two directions of the connection.
VARIABLES
  mFs,          \* the master's files: path -> content
  rFs,          \* the replica's files: path -> content
  up,           \* bytes written by the replica that the master has yet to read
  down,         \* bytes written by the master (the peer) that the replica has yet to read
  peerOpen,     \* whether the peer still has its end of the connection open
  rSt,          \* replica: "idle", "cycle", "receive", "failed", "panicked"
  rLast,        \* replica: lastSegmentID, lastSegmentSize
  rErr,         \* replica: the error that ended the session
  rWrote,       \* history: the paths the replica has written
  mSt,          \* master: "idle", "select", "reading", "ended"
  mLast,        \* master: lastSegmentID, lastSegmentSize
  changes,      \* the changes channel (capacity 1): number of signals in it
  monLast       \* monitorWALChanges: lastSize

replVars == << mFs, rFs, up, down, peerOpen, rSt, rLast, rErr, rWrote, mSt, mLast,
               changes, monLast >>

\* The start of the application: app.New calls wal.New and hands what it returns
\* to storage.NewEngine.
VARIABLES
  walEnabled,   \* cfg.WAL.Enabled
  appW          \* app.New's w: the *Service that wal.New returned, "unset" before

appVars == << walEnabled, appW >>

\* One segment in the hands of a caller of package segment: Write, Sync and
\* Close in any order.  The segment is cur, its directory is disk.
VARIABLES
  segSt,        \* "idle", or "used" once the caller has the segment
  segRes,       \* what the last call returned
  segOps,       \* how many calls the caller has made
  segCloses,    \* how many of them were calls of Close
  segClosedOk   \* whether a Close has returned nil

segVars == << segSt, segRes, segOps, segCloses, segClosedOk >>

\* The TCP server: the accept loop of Server.Start and one handleConnection
\* goroutine for each connection it takes.
VARIABLES
  maxConnections, \* config.MaxConnections
  connCount,      \* Server.connCount
  conns,          \* each connection: "none", "spawned", "serving", "closed", "done", "rejected"
  served          \* how many commands each connection has been answered

srvVars == << maxConnections, connCount, conns, served >>

\* The names of the segments of one process: NewSegmentInfo reads the wall
\* clock for each segment it names.
VARIABLES
  wallClock,    \* what time.Now().UnixNano() returns at this moment
  steps,        \* how many times the wall clock has been set back
  createdIds,   \* the ids NewSegmentInfo has returned, in the order of the calls
  idFs,         \* the files of the data directory: path -> content
  idRes         \* what the last CreateSegmentFile returned

idVars == << wallClock, steps, createdIds, idFs, idRes >>

\* The connection from the master to the replica as the transport sees it.
VARIABLES
  wire          \* the bytes the master has written that have not arrived yet

netVars == << wire >>

\* The replica's goroutine of startReplica and its maintainMasterConnection.
VARIABLES
  syncRetryCount,  \* cfg.SyncRetryCount
  retryCount,      \* the local retryCount of maintainMasterConnection
  attempts,        \* the calls of net.Dial in this call of maintainMasterConnection
  sleeps,          \* the sleeps of SyncRetryDelay in this call
  rounds,          \* the calls of maintainMasterConnection that have returned an error
  dSt              \* where the goroutine is

dialVars == << syncRetryCount, retryCount, attempts, sleeps, rounds, dSt >>

\* The master's WAL as the goroutine of monitorWALChanges sees it.
VARIABLES
  seen,         \* the id and the size of the current segment at the last poll
  polls         \* the polls of monitorWALChanges so far

monVars == << seen, polls >>

\* The master's segment files as os.OpenFile finds them.
VARIABLES
  unreadable    \* the paths at which os.OpenFile fails at present

faultVars == << unreadable >>

\* The engine's partitions and the goroutines that call the engine.
VARIABLES
  pmu,          \* partition -> its mu: the writer (0: none) and the readers
  pdata,        \* partition -> its data
  eng           \* caller -> where it is in its engine operation

lockVars == << pmu, pdata, eng >>

\* the transport, the replica's dialing, the master's monitor, the faults of
\* the master's files and the engine's partitions
lateVars == << netVars, dialVars, monVars, faultVars, lockVars >>

\* the components that stand apart from the WAL service, the codec, the
\* handler, the paths and replication
moreVars == << segVars, srvVars, idVars, lateVars >>

\* what the steps of the WAL service leave alone
extVars == << codecVars, handlerVars, pathVars, replVars, appVars, moreVars >>

\* what the steps of the codec leave alone
codecRest == << walVars, handlerVars, pathVars, replVars, appVars, moreVars >>

\* what the steps of the handler leave alone, the WAL service apart
handlerRest == << codecVars, pathVars, replVars, appVars, moreVars >>

\* what the calls on paths leave alone
pathRest == << walVars, codecVars, handlerVars, replVars, appVars, moreVars >>

\* what the steps of replication leave alone
replRest == << walVars, codecVars, handlerVars, pathVars, appVars, moreVars >>

vars == << walVars, extVars >>

(***************************************************************************)
(* Segment: internal/wal/segment.  An operation maps the state of the      *)
(* files (current segment, directory, clock, remaining faults, history)    *)
(* to the set of its possible outcomes, each a new state and an error.     *)
(***************************************************************************)
Ok(s) == [s |-> s, err |-> Nil]
Fail(s, e) == [s |-> s, err |-> e]

\* fmt.Errorf("%w: %v", sentinel, err): only the sentinel stays an identity
Wrap(sentinel, err) == <<sentinel>> \o err

\* segment.NewSegment with NewSegmentInfo: MkdirAll, then a name from the clock;
\* the file itself is not created.  Successive readings of the clock differ.
NewSegment(s) ==
  { Ok([s EXCEPT !.cur = [id |-> s.clock, file |-> "nil", buf |-> <<>>,
                          size |-> 0, werr |-> FALSE],
                 !.clock = s.clock + 1]) }
  \cup (IF s.faults > 0
        THEN { Fail([s EXCEPT !.faults = s.faults - 1],
                    <<"failed to create WAL directory">>) }
        ELSE {})

\* a segment that opens the oldest file of the directory for appending, when
\* there is one, instead of creating a file of its own
CreateSegmentFileReopening(s) ==
  IF s.cur.file # "nil" THEN { Ok(s) }
  ELSE IF DOMAIN s.disk = {}
  THEN { Ok([s EXCEPT !.cur.file = "open",
                      !.disk = [i \in {s.cur.id} |-> [data |-> <<>>, synced |-> 0]]]) }
  ELSE { Ok([s EXCEPT !.cur.file = "open",
                      !.cur.id = CHOOSE x \in DOMAIN s.disk : \A y \in DOMAIN s.disk : x <= y]) }

\* segment.CreateSegmentFile: os.OpenFile(O_CREATE|O_WRONLY|O_EXCL) on first use
CreateSegmentFile(s) ==
  IF s.cur.file # "nil" THEN { Ok(s) }
  ELSE (IF s.cur.id \in DOMAIN s.disk
        THEN { Fail(s, <<"failed to create segment file", "file exists">>) }
        ELSE { Ok([s EXCEPT !.cur.file = "open",
                            !.disk = [i \in DOMAIN s.disk \cup {s.cur.id} |->
                                        IF i = s.cur.id
                                        THEN [data |-> <<>>, synced |-> 0]
                                        ELSE s.disk[i]]]) })
       \cup (IF s.faults > 0
             THEN { Fail([s EXCEPT !.faults = s.faults - 1],
                         <<"failed to create segment file", "EIO">>) }
             ELSE {})

\* how many bytes of a buffer a failed write may have written: none, the first
\* byte (the end of the op field), two (the middle of key_len), or all of them
ShortWrites(buf) == {0, 1, 2, Len(buf)} \cap (0..Len(buf))

\* bufio.Writer.Flush: writes the buffer to the file; a failed write may have
\* written a prefix, keeps the rest buffered and makes the writer's error sticky
Flush(s) ==
  IF s.cur.werr THEN { Fail(s, <<"EIO">>) }
  ELSE IF s.cur.buf = <<>> THEN { Ok(s) }
  ELSE IF s.cur.file = "closed"
  THEN { Fail([s EXCEPT !.cur.werr = TRUE], <<"file already closed">>) }
  ELSE { Ok([s EXCEPT !.disk[s.cur.id].data = @ \o s.cur.buf, !.cur.buf = <<>>]) }
       \cup (IF s.faults > 0
             THEN { Fail([s EXCEPT !.disk[s.cur.id].data = @ \o SubSeq(s.cur.buf, 1, n),
                                   !.cur.buf = SubSeq(s.cur.buf, n + 1, Len(s.cur.buf)),
                                   !.cur.werr = TRUE,
                                   !.faults = s.faults - 1],
                         <<"EIO">>) : n \in ShortWrites(s.cur.buf) }
             ELSE {})

\* segment.Write: create the file if needed, entry.WriteTo(s.writer), size += n.
\* The writer's buffer (bufio's 4096 bytes) is larger than the entries of a run,
\* so the bytes stay in the buffer until Flush.
SegmentWrite(s, item) ==
  UNION { IF c.err # Nil THEN { Fail(c.s, <<"failed to create segment file">> \o c.err) }
          ELSE IF c.s.cur.werr THEN { Fail(c.s, <<"failed to write entry", "EIO">>) }
          ELSE { Ok([c.s EXCEPT !.cur.buf = @ \o WriteTo(item.e),
                                !.cur.size = @ + Len(WriteTo(item.e)),
                                !.written = Append(@, [call |-> item.call,
                                                       seg |-> c.s.cur.id,
                                                       off |-> c.s.cur.size,
                                                       len |-> Len(WriteTo(item.e))])]) }
          : c \in CreateSegmentFile(s) }

\* os.File.Sync
FileSync(s) ==
  IF s.cur.file = "closed" THEN { Fail(s, <<"file already closed">>) }
  ELSE { Ok([s EXCEPT !.disk[s.cur.id].synced = Len(s.disk[s.cur.id].data)]) }
       \cup (IF s.faults > 0
             THEN { Fail([s EXCEPT !.faults = s.faults - 1], <<"EIO">>) }
             ELSE {})

\* segment.Sync: nothing without a file, else writer.Flush then file.Sync
SegmentSync(s) ==
  IF s.cur.file = "nil" THEN { Ok(s) }
  ELSE UNION { IF f.err # Nil THEN { Fail(f.s, <<"failed to flush buffer">> \o f.err) }
               ELSE FileSync(f.s)
               : f \in Flush(s) }

\* os.File.Close: the descriptor is released also when close reports an error
FileClose(s) ==
  IF s.cur.file = "closed" THEN { Fail(s, <<"file already closed">>) }
  ELSE { Ok([s EXCEPT !.cur.file = "closed"]) }
       \cup (IF s.faults > 0
             THEN { Fail([s EXCEPT !.cur.file = "closed", !.faults = s.faults - 1],
                         <<"EIO">>) }
             ELSE {})

\* segment.Close: nothing without a file, else writer.Flush then file.Close
SegmentClose(s) ==
  IF s.cur.file = "nil" THEN { Ok(s) }
  ELSE UNION { IF f.err # Nil
               THEN { Fail(f.s, <<"failed to flush buffer on close">> \o f.err) }
               ELSE FileClose(f.s)
               : f \in Flush(s) }

(***************************************************************************)
(* WAL service: internal/wal/wal.go                                        *)
(***************************************************************************)
ErrWALClosed == <<"ErrWALClosed">>

\* Service.rotateSegment: close the current segment, then install a new one
rotateSegment(s) ==
  UNION { IF c.err # Nil THEN { Fail(c.s, Wrap("ErrCloseSegment", c.err)) }
          ELSE NewSegment(c.s)
          : c \in SegmentClose(s) }

\* a loop that writes the batch and never rotates
RECURSIVE WriteEntriesWithoutRotation(_, _, _)
WriteEntriesWithoutRotation(s, b, i) ==
  IF i > Len(b) THEN { Ok(s) }
  ELSE UNION {
    IF w.err # Nil THEN { Fail(w.s, Wrap("ErrWriteEntry", w.err)) }
    ELSE WriteEntriesWithoutRotation(w.s, b, i + 1)
    : w \in SegmentWrite(s, b[i]) }

\* the loop of Service.flushBatch over batch b from index i
RECURSIVE WriteEntries(_, _, _)
WriteEntries(s, b, i) ==
  IF i > Len(b) THEN { Ok(s) }
  ELSE UNION {
    IF w.err # Nil THEN { Fail(w.s, Wrap("ErrWriteEntry", w.err)) }
    ELSE IF w.s.cur.size >= cfg.MaxSegmentSizeBytes
    THEN UNION { IF r.err # Nil THEN { Fail(r.s, Wrap("ErrRotateSegment", r.err)) }
                 ELSE WriteEntries(r.s, b, i + 1)
                 : r \in rotateSegment(w.s) }
    ELSE WriteEntries(w.s, b, i + 1)
    : w \in SegmentWrite(s, b[i]) }

\* what Service.flushBatch leaves in the batch
BatchAfterFlush(b, err) == IF err = Nil THEN <<>> ELSE b

\* Service.flushBatch on batch b: outcomes with the batch that remains
flushBatch(s, b) ==
  IF Len(b) = 0 THEN { [s |-> s, err |-> Nil, batch |-> b] }
  ELSE UNION {
    IF w.err # Nil THEN { [s |-> w.s, err |-> w.err, batch |-> BatchAfterFlush(b, w.err)] }
    ELSE { [s |-> y.s,
            err |-> IF y.err # Nil THEN Wrap("ErrSyncWAL", y.err) ELSE Nil,
            batch |-> BatchAfterFlush(b, y.err)]
           : y \in SegmentSync(w.s) }
    : w \in WriteEntries(s, b, 1) }

\* a listing that sorts the segment ids the other way round
RECURSIVE ListSegmentsDescending(_)
ListSegmentsDescending(ids) ==
  IF ids = {} THEN <<>>
  ELSE LET m == CHOOSE x \in ids : \A y \in ids : x >= y
       IN <<m>> \o ListSegmentsDescending(ids \ {m})

\* segment.ListSegments: the segment ids of the directory in ascending order
RECURSIVE ListSegments(_)
ListSegments(ids) ==
  IF ids = {} THEN <<>>
  ELSE LET m == CHOOSE x \in ids : \A y \in ids : x <= y
       IN <<m>> \o ListSegments(ids \ {m})

RECURSIVE RecoverLoop(_, _, _)
RecoverLoop(d, segs, acc) ==
  IF segs = <<>> THEN [err |-> Nil, entries |-> acc]
  ELSE LET r == ReadSegmentEntries(d[Head(segs)].data) IN
       IF r.err # Nil THEN [err |-> r.err, entries |-> <<>>]
       ELSE RecoverLoop(d, Tail(segs), acc \o r.entries)

\* Service.Recover on directory d
Recover(d) == RecoverLoop(d, ListSegments(DOMAIN d), <<>>)

\* a notifyWaiters whose loop starts at the second waiter
RECURSIVE SendEach(_, _, _)
SendEach(chs, ch, err) ==
  IF chs = <<>> \/ Len(ch[Head(chs)]) >= 1 THEN [rest |-> chs, chans |-> ch]
  ELSE SendEach(Tail(chs), [ch EXCEPT ![Head(chs)] = Append(@, err)], err)

SendFromSecond(chs, ch, err) ==
  IF chs = <<>> THEN [rest |-> chs, chans |-> ch] ELSE SendEach(Tail(chs), ch, err)

\* a send on each channel of chs in turn, up to the first channel that is full:
\* the loop of Service.notifyWaiters (the channels have capacity 1)
RECURSIVE Send(_, _, _)
Send(chs, ch, err) ==
  IF chs = <<>> \/ Len(ch[Head(chs)]) >= 1 THEN [rest |-> chs, chans |-> ch]
  ELSE Send(Tail(chs), [ch EXCEPT ![Head(chs)] = Append(@, err)], err)

\* time.Timer.Stop on Service.flushTimer
StopTimer(tm, ft) ==
  IF ft # 0 /\ tm[ft] = "armed" THEN [tm EXCEPT ![ft] = "stopped"] ELSE tm

(***************************************************************************)
(* Storage engine: internal/storage                                        *)
(***************************************************************************)
defaultNumShards == 16

\* hash/fnv 32-bit constants, as two 16-bit halves (high, low):
\* offset32 = 0x811C9DC5 = 2166136261, prime32 = 0x01000193 = 16777619
offset32Hi == 33052
offset32Lo == 40389
prime32Hi == 256
prime32Lo == 403
Half == 65536

RECURSIVE XorBits(_, _, _)
XorBits(a, b, n) ==
  IF n = 0 THEN 0
  ELSE (((a % 2) + (b % 2)) % 2) + 2 * XorBits(a \div 2, b \div 2, n - 1)

\* (hi, lo) * prime32 modulo 2^32
MulPrime32(h) ==
  LET low == h[2] * prime32Lo
  IN << (h[1] * prime32Lo + h[2] * prime32Hi + (low \div Half)) % Half, low % Half >>

\* hash/fnv New32a: for each byte, hash ^= byte; hash *= prime32
RECURSIVE Sum32a(_, _)
Sum32a(h, bytes) ==
  IF bytes = <<>> THEN h
  ELSE Sum32a(MulPrime32(<< h[1], (h[2] \div 256) * 256 + XorBits(h[2] % 256, Head(bytes), 8) >>),
              Tail(bytes))

\* Engine.getPartition: index of the key's partition, hash.Sum32() % numShards
getPartition(key) ==
  LET h == Sum32a(<< offset32Hi, offset32Lo >>, key)
  IN ((h[1] % defaultNumShards) * (Half % defaultNumShards) + h[2]) % defaultNumShards

Shards == 0..(defaultNumShards - 1)
EmptyPartitions == [i \in Shards |-> <<>>]

\* p.data[key] = value on the key's partition
PutKey(p, key, value) ==
  [p EXCEPT ![getPartition(key)] =
     [x \in DOMAIN @ \cup {key} |-> IF x = key THEN value ELSE @[x]]]

\* a delete that takes the partition next to the key's
DeleteKeyNextShard(p, key) ==
  [p EXCEPT ![(getPartition(key) + 1) % defaultNumShards] = [x \in DOMAIN @ \ {key} |-> @[x]]]

\* delete(p.data, key) on the key's partition
DeleteKey(p, key) ==
  [p EXCEPT ![getPartition(key)] = [x \in DOMAIN @ \ {key} |-> @[x]]]

\* p.data = make(map[string]string) for every partition
ClearAll(p) == [i \in Shards |-> <<>>]

\* Engine.Get
Get(p, key) ==
  IF key \in DOMAIN p[getPartition(key)]
  THEN [value |-> p[getPartition(key)][key], exists |-> TRUE]
  ELSE [value |-> <<>>, exists |-> FALSE]

\* what Engine.Set, Engine.Delete and Engine.Clear do to the partitions after the
\* WAL write of their entry e
ApplyOp(p, e) ==
  IF e.Operation = OperationSet THEN PutKey(p, e.Key, e.Value)
  ELSE IF e.Operation = OperationDelete THEN DeleteKey(p, e.Key)
  ELSE ClearAll(p)

\* a replay switch that knows only Set and Delete
ApplyEntryWithoutClear(p, e) ==
  IF e.Operation = OperationSet THEN PutKey(p, e.Key, e.Value)
  ELSE IF e.Operation = OperationDelete THEN DeleteKey(p, e.Key)
  ELSE p

\* the switch of Engine.applyEntries on one recovered entry
ApplyEntry(p, e) ==
  IF e.Operation = OperationSet THEN PutKey(p, e.Key, e.Value)
  ELSE IF e.Operation = OperationDelete THEN DeleteKey(p, e.Key)
  ELSE IF e.Operation = OperationClear THEN ClearAll(p)
  ELSE p

RECURSIVE applyEntries(_, _)
applyEntries(p, entries) ==
  IF entries = <<>> THEN p
  ELSE applyEntries(ApplyEntry(p, Head(entries)), Tail(entries))

\* NewEngine over directory d: replay what Recover returns; a Recover error is
\* logged and nothing is replayed
NewEngine(d) ==
  LET r == Recover(d) IN
  applyEntries(EmptyPartitions, IF r.err = Nil THEN r.entries ELSE <<>>)

\* an engine that goes on to the partition whatever Service.Write returned
AfterWriteIgnoringError(err) == "apply"

\* Engine.Set / Delete / Clear after e.wal.Write returned err: return the error,
\* or go on to change the partition
AfterWrite(err) == IF err # Nil THEN "done" ELSE "apply"

(***************************************************************************)
(* Initial state: wal.New has created the service and its first segment    *)
(* (no file yet), NewEngine has found an empty directory.                  *)
(***************************************************************************)
NoEntry == [Operation |-> 0, Key |-> <<>>, Value |-> <<>>]

\* a *Service: the nil pointer, or the pointer to the service
NilService == "nil"
TheService == "service"

\* the fields of a new service and of a new engine, and an empty directory
NewFields ==
  /\ batch = <<>>
  /\ flushDone = <<>>
  /\ timerActive = FALSE
  /\ flushTimer = 0
  /\ quit = "chan"
  /\ cur = [id |-> 1, file |-> "nil", buf |-> <<>>, size |-> 0, werr |-> FALSE]
  /\ mu = <<>>
  /\ quitClosed = FALSE
  /\ timers = [c \in Calls |-> "none"]
  /\ chans = [c \in Calls |-> <<>>]
  /\ disk = <<>>
  /\ clock = 2
  /\ faults = MaxFaults
  /\ calls = [c \in Calls |-> [st |-> "none", e |-> NoEntry, wres |-> Nil, res |-> Nil,
                               after |-> {}, closed |-> FALSE]]
  /\ tg = [c \in Calls |-> [st |-> "none", t |-> 0, q |-> "nil", snap |-> <<>>]]
  /\ closer = [k \in Closers |-> [st |-> "idle", res |-> Nil, took |-> {}, late |-> FALSE]]
  /\ partitions = EmptyPartitions
  /\ written = <<>>
  /\ failedFlush = <<>>
  /\ oldPartitions = EmptyPartitions

\* a new service and a new engine over an empty directory: app.New has returned
\* with the WAL enabled
WalInit ==
  /\ NewFields
  /\ phase = "running"
  /\ walEnabled = TRUE
  /\ appW = TheService

NoRead == [entry |-> [err |-> Nil, pos |-> 0], segment |-> [err |-> Nil, entries |-> <<>>]]

\* no entry is on its way through the codec
CodecIdle ==
  /\ codecEntry = NoEntry
  /\ codecFile = <<>>
  /\ codecStart = 0
  /\ codecCount = 0
  /\ codecRead = NoRead
  /\ codecSt = "idle"

Master == "master"
Replica == "replica"

NoCommand == [Type |-> "", Args |-> <<>>]
NoResult == [response |-> <<>>, err |-> <<>>]

\* a master's handler that has taken no command
HandlerIdle ==
  /\ replicaType = Master
  /\ hcmd = NoCommand
  /\ hst = "idle"
  /\ hres = NoResult
  /\ hcall = 0
  /\ hseq = 0

NoPathResult == [path |-> <<>>, data |-> <<>>, err |-> <<>>]

\* no call on a path is under way
PathIdle ==
  /\ pWalDir = <<>>
  /\ pSegName = <<>>
  /\ pFs = <<>>
  /\ pRes = NoPathResult
  /\ pSt = "idle"

NoLast == [id |-> -1, size |-> 0]

\* no replication connection
ReplIdle ==
  /\ mFs = <<>>
  /\ rFs = <<>>
  /\ up = <<>>
  /\ down = <<>>
  /\ peerOpen = FALSE
  /\ rSt = "idle"
  /\ rLast = NoLast
  /\ rErr = <<>>
  /\ rWrote = {}
  /\ mSt = "idle"
  /\ mLast = NoLast
  /\ changes = 0
  /\ monLast = 0

\* no caller has a segment of its own
SegIdle ==
  /\ segSt = "idle"
  /\ segRes = <<>>
  /\ segOps = 0
  /\ segCloses = 0
  /\ segClosedOk = FALSE

\* a server that has accepted nothing
ServerIdle ==
  /\ maxConnections = 0
  /\ connCount = 0
  /\ conns = <<>>
  /\ served = <<>>

\* no process names segments
IdIdle ==
  /\ wallClock = 0
  /\ steps = 0
  /\ createdIds = <<>>
  /\ idFs = <<>>
  /\ idRes = <<>>

\* nothing is on the wire
NetIdle == wire = <<>>

\* no replica dials
DialIdle ==
  /\ syncRetryCount = 0
  /\ retryCount = 0
  /\ attempts = 0
  /\ sleeps = 0
  /\ rounds = 0
  /\ dSt = "idle"

\* no monitor polls
MonIdle == seen = [id |-> 0, size |-> 0] /\ polls = 0

FaultIdle == unreadable = {}

NumCallers == 2
Callers == 1..NumCallers

\* what Get returns for a missing key
NotFound == [value |-> <<>>, exists |-> FALSE]

\* a caller outside the engine
Outside == [st |-> "idle", todo |-> <<>>, shard |-> 0, key |-> <<>>, got |-> NotFound]

LockIdle ==
  /\ pmu = [i \in Shards |-> [w |-> 0, r |-> {}]]
  /\ pdata = EmptyPartitions
  /\ eng = [t \in Callers |-> Outside]

LateIdle == NetIdle /\ DialIdle /\ MonIdle /\ FaultIdle /\ LockIdle

MoreIdle == SegIdle /\ ServerIdle /\ IdIdle /\ LateIdle

Init ==
  /\ cfg \in [FlushingBatchSize : BatchSizes, MaxSegmentSizeBytes : SegmentSizes]
  /\ WalInit
  /\ MoreIdle
  /\ CodecIdle
  /\ HandlerIdle
  /\ PathIdle
  /\ ReplIdle

Files == [cur |-> cur, disk |-> disk, clock |-> clock, faults |-> faults,
          written |-> written]

SetFiles(s) ==
  /\ cur' = s.cur
  /\ disk' = s.disk
  /\ clock' = s.clock
  /\ faults' = s.faults
  /\ written' = s.written

\* the history of failed flushes after a flushBatch that returned err to waiters fd
Failed(fd, err) ==
  IF err # Nil
  THEN Append(failedFlush, [parts |-> {fd[i] : i \in DOMAIN fd}, err |-> err])
  ELSE failedFlush

NextCall == 1 + Cardinality({c \in Calls : calls[c].st # "none"})
InFlight == Cardinality({c \in Calls : calls[c].st \in {"wait", "blocked", "apply"}})

\* a call leaves Service.Write with err
Returned(cs, c, err) ==
  [cs EXCEPT ![c].st = AfterWrite(err), ![c].wres = err, ![c].res = err]

\* what a waiter returns for the value it received on its channel
WaiterResult(v) == IF v # Nil THEN Wrap("ErrFlushWAL", v) ELSE Nil

\* Service.startFlushTimerIfNeeded for call c
startFlushTimerIfNeeded(c) ==
  IF ~timerActive
  THEN /\ timers' = [StopTimer(timers, flushTimer) EXCEPT ![c] = "armed"]
       /\ flushTimer' = c
       /\ timerActive' = TRUE
       /\ tg' = [tg EXCEPT ![c].st = "spawned"]
  ELSE UNCHANGED << timers, flushTimer, timerActive, tg >>

(***************************************************************************)
(* Engine.Set / Delete / Clear with entry e, up to the end of the critical *)
(* section of Service.Write: append to the batch and to the waiters, then  *)
(* either flush and notify (batch full) or start the timer and wait.       *)
(***************************************************************************)
EngineCall(e) ==
  /\ phase = "running"
  /\ mu = <<>>
  /\ NextCall \in Calls
  /\ InFlight < NumThreads
  /\ LET c == NextCall
         b1 == Append(batch, [call |-> c, e |-> e])
         fd1 == Append(flushDone, c)
         cs == [calls EXCEPT ![c].e = e,
                             ![c].after = {a \in Calls : calls[a].st \in {"apply", "done"}
                                                        /\ calls[a].wres = Nil},
                             ![c].closed = \E k \in Closers :
                                              /\ closer[k].st = "done"
                                              /\ closer[k].res # ErrWALClosed]
     IN IF Len(b1) >= cfg.FlushingBatchSize
        THEN \E o \in flushBatch(Files, b1) :
               LET n == Send(fd1, chans, o.err) IN
               /\ SetFiles(o.s)
               /\ failedFlush' = Failed(fd1, o.err)
               /\ batch' = o.batch
               /\ timers' = StopTimer(timers, flushTimer)
               /\ timerActive' = FALSE
               /\ chans' = n.chans
               /\ IF n.rest = <<>>
                  THEN /\ flushDone' = <<>>
                       /\ mu' = <<>>
                       /\ calls' = Returned(cs, c, o.err)
                  ELSE /\ flushDone' = fd1
                       /\ mu' = [who |-> <<"w", c>>, rest |-> n.rest, err |-> o.err]
                       /\ calls' = [cs EXCEPT ![c].st = "blocked"]
               /\ UNCHANGED << flushTimer, tg >>
        ELSE /\ batch' = b1
             /\ flushDone' = fd1
             /\ startFlushTimerIfNeeded(c)
             /\ calls' = [cs EXCEPT ![c].st = "wait"]
             /\ UNCHANGED << cur, disk, clock, faults, written, failedFlush, chans, mu >>
  /\ UNCHANGED << cfg, quit, quitClosed, closer, partitions, phase, oldPartitions >>
  /\ UNCHANGED extVars

\* Service.Write, waiting: err := <-done
WriteWait(c) ==
  /\ phase = "running"
  /\ calls[c].st = "wait"
  /\ chans[c] # <<>>
  /\ chans' = [chans EXCEPT ![c] = Tail(@)]
  /\ calls' = Returned(calls, c, WaiterResult(Head(chans[c])))
  /\ UNCHANGED << cfg, batch, flushDone, timerActive, flushTimer, quit, cur, mu,
                  quitClosed, timers, disk, clock, faults, tg, closer, partitions,
                  phase, written, failedFlush, oldPartitions >>
  /\ UNCHANGED extVars

\* Engine.Set / Delete / Clear after the WAL write: change the partitions
EngineApply(c) ==
  /\ phase = "running"
  /\ calls[c].st = "apply"
  /\ partitions' = ApplyOp(partitions, calls[c].e)
  /\ calls' = [calls EXCEPT ![c].st = "done", ![c].res = Nil]
  /\ UNCHANGED << cfg, batch, flushDone, timerActive, flushTimer, quit, cur, mu,
                  quitClosed, timers, chans, disk, clock, faults, tg, closer, phase,
                  written, failedFlush, oldPartitions >>
  /\ UNCHANGED extVars

(***************************************************************************)
(* Service.handleFlushTimer, goroutine of timer c                          *)
(***************************************************************************)
\* entering the select: w.flushTimer.C and w.quit are read without the lock
TimerStart(c) ==
  /\ phase = "running"
  /\ tg[c].st = "spawned"
  /\ tg' = [tg EXCEPT ![c].st = "select", ![c].t = flushTimer, ![c].q = quit]
  /\ UNCHANGED << cfg, batch, flushDone, timerActive, flushTimer, quit, cur, mu,
                  quitClosed, timers, chans, disk, clock, faults, calls, closer,
                  partitions, phase, written, failedFlush, oldPartitions >>
  /\ UNCHANGED extVars

\* case <-w.flushTimer.C: the timer expires and this goroutine receives
TimerFire(c) ==
  /\ phase = "running"
  /\ tg[c].st = "select"
  /\ tg[c].t # 0
  /\ timers[tg[c].t] = "armed"
  /\ timers' = [timers EXCEPT ![tg[c].t] = "fired"]
  /\ tg' = [tg EXCEPT ![c].st = "fired"]
  /\ UNCHANGED << cfg, batch, flushDone, timerActive, flushTimer, quit, cur, mu,
                  quitClosed, chans, disk, clock, faults, calls, closer, partitions,
                  phase, written, failedFlush, oldPartitions >>
  /\ UNCHANGED extVars

\* the timer branch: Lock, flushBatch, notifyWaiters(err), timerActive = false, Unlock
TimerFlush(c) ==
  /\ phase = "running"
  /\ tg[c].st = "fired"
  /\ mu = <<>>
  /\ \E o \in flushBatch(Files, batch) :
       LET n == Send(flushDone, chans, o.err) IN
       /\ SetFiles(o.s)
       /\ failedFlush' = Failed(flushDone, o.err)
       /\ batch' = o.batch
       /\ timers' = IF Len(batch) = 0 THEN timers ELSE StopTimer(timers, flushTimer)
       /\ chans' = n.chans
       /\ IF n.rest = <<>>
          THEN /\ flushDone' = <<>>
               /\ mu' = <<>>
               /\ timerActive' = FALSE
               /\ tg' = [tg EXCEPT ![c].st = "done"]
          ELSE /\ flushDone' = flushDone
               /\ mu' = [who |-> <<"t", c>>, rest |-> n.rest, err |-> o.err]
               /\ timerActive' = IF Len(batch) = 0 THEN timerActive ELSE FALSE
               /\ tg' = [tg EXCEPT ![c].st = "blocked"]
  /\ UNCHANGED << cfg, flushTimer, quit, quitClosed, calls, closer, partitions, phase,
                  oldPartitions >>
  /\ UNCHANGED extVars

\* case <-w.quit: notifyWaiters(nil) without the lock; the range reads
\* w.flushDone once, the sends follow
TimerQuit(c) ==
  /\ phase = "running"
  /\ tg[c].st = "select"
  /\ tg[c].q = "chan"
  /\ quitClosed
  /\ LET n == Send(flushDone, chans, Nil) IN
     /\ chans' = n.chans
     /\ tg' = [tg EXCEPT ![c].st = "quit", ![c].snap = n.rest]
  /\ UNCHANGED << cfg, batch, flushDone, timerActive, flushTimer, quit, cur, mu,
                  quitClosed, timers, disk, clock, faults, calls, closer, partitions,
                  phase, written, failedFlush, oldPartitions >>
  /\ UNCHANGED extVars

\* the rest of notifyWaiters(nil): the sends that were blocked, then
\* w.flushDone = make([]chan error, 0)
TimerQuitNotify(c) ==
  /\ phase = "running"
  /\ tg[c].st = "quit"
  /\ IF tg[c].snap = <<>>
     THEN /\ flushDone' = <<>>
          /\ tg' = [tg EXCEPT ![c].st = "done"]
          /\ UNCHANGED chans
     ELSE LET n == Send(tg[c].snap, chans, Nil) IN
          /\ n.rest # tg[c].snap
          /\ chans' = n.chans
          /\ tg' = [tg EXCEPT ![c].snap = n.rest]
          /\ UNCHANGED flushDone
  /\ UNCHANGED << cfg, batch, timerActive, flushTimer, quit, cur, mu, quitClosed,
                  timers, disk, clock, faults, calls, closer, partitions, phase,
                  written, failedFlush, oldPartitions >>
  /\ UNCHANGED extVars

\* notifyWaiters under the lock, resumed after a send that was blocked
NotifyResume ==
  /\ phase = "running"
  /\ mu # <<>>
  /\ LET n == Send(mu.rest, chans, mu.err) IN
     /\ n.rest # mu.rest
     /\ chans' = n.chans
     /\ IF n.rest # <<>>
        THEN /\ mu' = [mu EXCEPT !.rest = n.rest]
             /\ UNCHANGED << flushDone, calls, tg, timerActive >>
        ELSE /\ mu' = <<>>
             /\ flushDone' = <<>>
             /\ IF mu.who[1] = "w"
                THEN /\ calls' = Returned(calls, mu.who[2], mu.err)
                     /\ UNCHANGED << tg, timerActive >>
                ELSE /\ tg' = [tg EXCEPT ![mu.who[2]].st = "done"]
                     /\ timerActive' = FALSE
                     /\ UNCHANGED calls
  /\ UNCHANGED << cfg, batch, flushTimer, quit, cur, quitClosed, timers, disk, clock,
                  faults, closer, partitions, phase, written, failedFlush, oldPartitions >>
  /\ UNCHANGED extVars

(***************************************************************************)
(* Service.Close by caller k                                               *)
(***************************************************************************)
\* history: some Close has returned when this one is called
AnotherCloseReturned == \E j \in Closers : closer[j].st = "done"

\* a Close that never finds the service closed
ClosedNever(q) == FALSE

\* Service.Close: w.quit == nil
Closed(q) == q = "nil"

\* if w.quit == nil { return ErrWALClosed }; close(w.quit).  Closing a closed
\* channel panics (w.quit is not yet nil when a second caller gets here too).
\* The callers are numbered in the order in which they arrive.
CloseQuit(k) ==
  /\ phase = "running"
  /\ closer[k].st = "idle"
  /\ \A j \in Closers : j < k => closer[j].st # "idle"
  /\ IF Closed(quit)
     THEN /\ closer' = [closer EXCEPT ![k].st = "done", ![k].res = ErrWALClosed,
                                      ![k].late = AnotherCloseReturned]
          /\ UNCHANGED << quitClosed, phase >>
     ELSE IF quitClosed
     THEN /\ phase' = "panicked"
          /\ UNCHANGED << quitClosed, closer >>
     ELSE /\ quitClosed' = TRUE
          /\ closer' = [closer EXCEPT ![k].st = "setnil",
                                      ![k].late = AnotherCloseReturned]
          /\ UNCHANGED phase
  /\ UNCHANGED << cfg, batch, flushDone, timerActive, flushTimer, quit, cur, mu,
                  timers, chans, disk, clock, faults, calls, tg, partitions, written, failedFlush,
                  oldPartitions >>
  /\ UNCHANGED extVars

\* w.quit = nil
CloseSetNil(k) ==
  /\ phase = "running"
  /\ closer[k].st = "setnil"
  /\ quit' = "nil"
  /\ closer' = [closer EXCEPT ![k].st = "lock"]
  /\ UNCHANGED << cfg, batch, flushDone, timerActive, flushTimer, cur, mu, quitClosed,
                  timers, chans, disk, clock, faults, calls, tg, partitions, phase,
                  written, failedFlush, oldPartitions >>
  /\ UNCHANGED extVars

\* a Close that closes the segment whatever flushBatch returned
CloseOutcomesIgnoringFlushError(o) == SegmentClose(o.s)

\* the result of Close after flushBatch returned o
CloseOutcomes(o) ==
  IF o.err # Nil THEN { Fail(o.s, Wrap("ErrFlushFinalBatch", o.err)) }
  ELSE SegmentClose(o.s)

\* Lock, flushBatch, currentSegment.Close, Unlock
CloseFlush(k) ==
  /\ phase = "running"
  /\ closer[k].st = "lock"
  /\ mu = <<>>
  /\ \E o \in flushBatch(Files, batch) :
       /\ batch' = o.batch
       /\ failedFlush' = Failed(flushDone, o.err)
       /\ timers' = IF Len(batch) = 0 THEN timers ELSE StopTimer(timers, flushTimer)
       /\ timerActive' = IF Len(batch) = 0 THEN timerActive ELSE FALSE
       /\ \E r \in CloseOutcomes(o) :
            /\ SetFiles(r.s)
            /\ closer' = [closer EXCEPT ![k].st = "done", ![k].res = r.err,
                                        ![k].took = {batch[i].call : i \in DOMAIN batch}]
  /\ UNCHANGED << cfg, flushDone, flushTimer, quit, mu, quitClosed, chans, calls, tg,
                  partitions, phase, oldPartitions >>
  /\ UNCHANGED extVars

(***************************************************************************)
(* The process exits after a Close has returned and is started again over  *)
(* the same directory: wal.New installs a fresh segment, NewEngine replays. *)
(***************************************************************************)
Restart ==
  /\ phase = "running"
  /\ \E k \in Closers : closer[k].st = "done" /\ closer[k].res # ErrWALClosed
  /\ phase' = "restarted"
  /\ oldPartitions' = partitions
  /\ partitions' = NewEngine(disk)
  /\ cur' = [id |-> clock, file |-> "nil", buf |-> <<>>, size |-> 0, werr |-> FALSE]
  /\ clock' = clock + 1
  /\ UNCHANGED << cfg, batch, flushDone, timerActive, flushTimer, quit, mu, quitClosed,
                  timers, chans, disk, faults, calls, tg, closer, written, failedFlush >>
  /\ UNCHANGED extVars

Next ==
  \/ \E e \in WalEntries : EngineCall(e)
  \/ \E c \in Calls : WriteWait(c)
  \/ \E c \in Calls : EngineApply(c)
  \/ \E c \in Calls : TimerStart(c)
  \/ \E c \in Calls : TimerFire(c)
  \/ \E c \in Calls : TimerFlush(c)
  \/ \E c \in Calls : TimerQuit(c)
  \/ \E c \in Calls : TimerQuitNotify(c)
  \/ NotifyResume
  \/ \E k \in Closers : CloseQuit(k)
  \/ \E k \in Closers : CloseSetNil(k)
  \/ \E k \in Closers : CloseFlush(k)
  \/ Restart

Spec == Init /\ [][Next]_vars

\* The goroutines are scheduled: every step of a Write that has entered the
\* service, of handleFlushTimer and of a Close that has started is weakly
\* fair; whether a client calls Write or Close is up to the client.
SpecFair ==
  /\ Spec
  /\ WF_vars(NotifyResume)
  /\ \A c \in Calls :
       /\ WF_vars(WriteWait(c))
       /\ WF_vars(EngineApply(c))
       /\ WF_vars(TimerStart(c))
       /\ WF_vars(TimerFire(c))
       /\ WF_vars(TimerFlush(c))
       /\ WF_vars(TimerQuit(c))
       /\ WF_vars(TimerQuitNotify(c))
  /\ \A k \in Closers :
       /\ WF_vars(CloseSetNil(k))
       /\ WF_vars(CloseFlush(k))

(***************************************************************************)
(* One client that calls the engine sequentially and then closes it: a     *)
(* call starts when the previous one has returned and no Close has         *)
(* started, a Close starts when every call has returned.  A waiting call   *)
(* returns only after its timer goroutine has flushed, so no goroutine is  *)
(* left in its select when Close closes w.quit: the quit branch and a      *)
(* blocked notifyWaiters do not occur with this client.                    *)
(***************************************************************************)
ClientIdle ==
  /\ InFlight = 0
  /\ \A k \in Closers : closer[k].st \in {"idle", "done"}

SeqCall(e) ==
  /\ ClientIdle
  /\ \A k \in Closers : closer[k].st = "idle"
  /\ EngineCall(e)

SeqClose(k) ==
  /\ ClientIdle
  /\ CloseQuit(k)

NextSeq ==
  \/ \E e \in Entries : SeqCall(e)
  \/ \E c \in Calls : WriteWait(c)
  \/ \E c \in Calls : EngineApply(c)
  \/ \E c \in Calls : TimerStart(c)
  \/ \E c \in Calls : TimerFire(c)
  \/ \E c \in Calls : TimerFlush(c)
  \/ \E k \in Closers : SeqClose(k)
  \/ \E k \in Closers : CloseSetNil(k)
  \/ \E k \in Closers : CloseFlush(k)
  \/ Restart

SpecSeq == Init /\ [][NextSeq]_vars

(***************************************************************************)
(* The service while it is open: the clients call Write, nobody calls      *)
(* Close.  The goroutines are scheduled and an armed timer expires: every  *)
(* step of a waiting Write and of handleFlushTimer is weakly fair; whether *)
(* a client makes another call is up to the client.                        *)
(***************************************************************************)
NextOpen ==
  \/ \E e \in WalEntries : EngineCall(e)
  \/ \E c \in Calls : WriteWait(c)
  \/ \E c \in Calls : EngineApply(c)
  \/ \E c \in Calls : TimerStart(c)
  \/ \E c \in Calls : TimerFire(c)
  \/ \E c \in Calls : TimerFlush(c)

SpecOpen == Init /\ [][NextOpen]_vars

SpecOpenFair ==
  /\ SpecOpen
  /\ \A c \in Calls :
       /\ WF_vars(WriteWait(c))
       /\ WF_vars(EngineApply(c))
       /\ WF_vars(TimerStart(c))
       /\ WF_vars(TimerFire(c))
       /\ WF_vars(TimerFlush(c))

(***************************************************************************)
(* The start of the application, then the sequential client.               *)
(***************************************************************************)
\* wal.New: a nil *Service and no error when the WAL is disabled
New(enabled) == [w |-> IF enabled THEN TheService ELSE NilService, err |-> Nil]

\* the nil value of the interface wal.WAL
NilWAL == [type |-> "nil", ptr |-> NilService]

\* the *Service ptr as the argument w wal.WAL of NewEngine: an interface value
\* that holds the type *Service and the pointer
AsWAL(ptr) == [type |-> "*wal.Service", ptr |-> ptr]

\* Service.Recover on the receiver ptr: w.config is read through the pointer
RecoverOn(ptr, d) ==
  IF ptr = NilService THEN [panic |-> TRUE, r |-> [err |-> Nil, entries |-> <<>>]]
  ELSE [panic |-> FALSE, r |-> Recover(d)]

\* storage.NewEngine(log, w) over directory d: Recover is called when the
\* interface w is not nil
NewEngineWith(w, d) ==
  IF w # NilWAL
  THEN IF RecoverOn(w.ptr, d).panic THEN [panic |-> TRUE, partitions |-> EmptyPartitions]
       ELSE [panic |-> FALSE, partitions |-> NewEngine(d)]
  ELSE [panic |-> FALSE, partitions |-> EmptyPartitions]

\* app.New: wal.New(cfg.WAL)
AppWalNew ==
  /\ phase = "new"
  /\ appW = "unset"
  /\ appW' = New(walEnabled).w
  /\ UNCHANGED << walVars, codecVars, handlerVars, pathVars, replVars, moreVars, walEnabled >>

\* app.New: storage.NewEngine(log, w)
AppNewEngine ==
  /\ phase = "new"
  /\ appW # "unset"
  /\ \E o \in {NewEngineWith(AsWAL(appW), disk)} :
     /\ phase' = IF o.panic THEN "panicked" ELSE "running"
     /\ partitions' = o.partitions
  /\ UNCHANGED << cfg, batch, flushDone, timerActive, flushTimer, quit, cur, mu, quitClosed,
                  timers, chans, disk, clock, faults, calls, tg, closer, written,
                  failedFlush, oldPartitions >>
  /\ UNCHANGED extVars

InitApp ==
  /\ cfg \in [FlushingBatchSize : BatchSizes, MaxSegmentSizeBytes : SegmentSizes]
  /\ NewFields
  /\ phase = "new"
  /\ walEnabled \in BOOLEAN
  /\ appW = "unset"
  /\ CodecIdle
  /\ HandlerIdle
  /\ PathIdle
  /\ ReplIdle
  /\ MoreIdle

NextApp ==
  \/ AppWalNew
  \/ AppNewEngine
  \/ NextSeq

SpecApp == InitApp /\ [][NextApp]_vars

(***************************************************************************)
(* The codec on its own: one entry is written after the earlier content of *)
(* a segment file, the file may lose a tail inside the entry, and the file *)
(* is read back.                                                           *)
(***************************************************************************)
\* keys and values of up to MaxFieldLen bytes
CodecStrings == UNION { [1..n -> {49, 97}] : n \in 0..MaxFieldLen }

\* Set with any key and value, Delete and Clear with any key and no value
CodecEntries ==
  {[Operation |-> OperationSet, Key |-> k, Value |-> v] : k \in CodecStrings, v \in CodecStrings}
  \cup {[Operation |-> op, Key |-> k, Value |-> <<>>] :
          op \in {OperationDelete, OperationClear}, k \in CodecStrings}

\* the configuration of a service that takes no step
IdleCfg == [FlushingBatchSize |-> 1, MaxSegmentSizeBytes |-> 64]

InitCodec ==
  /\ cfg = IdleCfg
  /\ WalInit
  /\ MoreIdle
  /\ codecEntry \in CodecEntries
  /\ codecFile \in {<<>>, WriteTo([Operation |-> OperationSet, Key |-> <<97>>, Value |-> <<49>>])}
  /\ codecStart = Len(codecFile)
  /\ codecCount = 0
  /\ codecRead = NoRead
  /\ codecSt = "new"
  /\ HandlerIdle
  /\ PathIdle
  /\ ReplIdle

\* Entry.WriteTo on the writer of the file: the bytes, and their count
CodecWriteTo ==
  /\ codecSt = "new"
  /\ codecFile' = codecFile \o WriteTo(codecEntry)
  /\ codecCount' = Len(WriteTo(codecEntry))
  /\ codecSt' = "written"
  /\ UNCHANGED << codecEntry, codecStart, codecRead, codecRest >>

\* the file keeps only the first n bytes of the entry, n of them at least one
\* and not all
CodecCut(n) ==
  /\ codecSt = "written"
  /\ n \in 1..(codecCount - 1)
  /\ codecFile' = SubSeq(codecFile, 1, codecStart + n)
  /\ codecSt' = "cut"
  /\ UNCHANGED << codecEntry, codecStart, codecCount, codecRead, codecRest >>

\* ReadEntry at the start of the entry, and ReadSegmentEntries on the file
CodecReadFrom ==
  /\ codecSt \in {"written", "cut"}
  /\ codecRead' = [entry |-> ReadEntry(codecFile, codecStart),
                   segment |-> ReadSegmentEntries(codecFile)]
  /\ codecSt' = IF codecSt = "written" THEN "read" ELSE "readcut"
  /\ UNCHANGED << codecEntry, codecFile, codecStart, codecCount, codecRest >>

NextCodec ==
  \/ CodecWriteTo
  \/ \E n \in 1..(5 + 4 + 2 * (MaxFieldLen + 1)) : CodecCut(n)
  \/ CodecReadFrom

SpecCodec == InitCodec /\ [][NextCodec]_vars

(***************************************************************************)
(* Command handler: internal/compute.  Strings that reach the client are   *)
(* byte sequences, as keys and values are.                                 *)
(***************************************************************************)
MaxCommands == 3

CommandSet == "SET"
CommandGet == "GET"
CommandDel == "DEL"
CommandHelp == "HELP"
CommandClear == "CLEAR"

\* "OK"
ResponseOK == <<79, 75>>
\* the help text, of which the model keeps the first word, "Available"
HelpMessage == <<65, 118, 97, 105, 108, 97, 98, 108, 101>>

ErrKeyNotFound == <<"ErrKeyNotFound">>
ErrUnknownCommand == <<"ErrUnknownCommand">>
ErrReadOnlyReplica == <<"ErrReadOnlyReplica">>

\* the commands a successful parse hands to handleCommand
Commands ==
  {[Type |-> CommandSet, Args |-> <<k, v>>] : k \in Keys, v \in Values}
  \cup {[Type |-> t, Args |-> <<k>>] : t \in {CommandGet, CommandDel}, k \in Keys}
  \cup {[Type |-> t, Args |-> <<>>] : t \in {CommandHelp, CommandClear}}

\* a replica that lets DEL through as well
ReplicaAllowsDel(type) == type \in {CommandHelp, CommandGet, CommandDel}

\* the switch handleCommand makes on a replica: the commands that are allowed
ReplicaAllows(type) == type \in {CommandHelp, CommandGet}

\* the entry Engine.Set / Delete / Clear writes for a command
EntryOf(cmd) ==
  IF cmd.Type = CommandSet
  THEN [Operation |-> OperationSet, Key |-> cmd.Args[1], Value |-> cmd.Args[2]]
  ELSE IF cmd.Type = CommandDel
  THEN [Operation |-> OperationDelete, Key |-> cmd.Args[1], Value |-> <<>>]
  ELSE [Operation |-> OperationClear, Key |-> <<>>, Value |-> <<>>]

\* Handler.handleCommand on a handler of type rt over partitions p: either the
\* result it returns at once, or the engine call it makes (engine = TRUE)
handleCommand(rt, cmd, p) ==
  IF rt = Replica /\ ~ReplicaAllows(cmd.Type)
  THEN [engine |-> FALSE, response |-> <<>>, err |-> ErrReadOnlyReplica]
  ELSE IF cmd.Type = CommandHelp
  THEN [engine |-> FALSE, response |-> HelpMessage, err |-> Nil]
  ELSE IF cmd.Type = CommandGet
  THEN LET g == Get(p, cmd.Args[1]) IN
       IF ~g.exists THEN [engine |-> FALSE, response |-> <<>>, err |-> ErrKeyNotFound]
       ELSE [engine |-> FALSE, response |-> g.value, err |-> Nil]
  ELSE IF cmd.Type \in {CommandSet, CommandDel, CommandClear}
  THEN [engine |-> TRUE, response |-> <<>>, err |-> Nil]
  ELSE [engine |-> FALSE, response |-> <<>>, err |-> ErrUnknownCommand]

\* what handleCommand returns after Engine.Set / Delete / Clear returned err
AfterEngine(err) ==
  IF err # Nil THEN [response |-> <<>>, err |-> err]
  ELSE [response |-> ResponseOK, err |-> Nil]

InitHandler ==
  /\ cfg \in [FlushingBatchSize : BatchSizes, MaxSegmentSizeBytes : SegmentSizes]
  /\ WalInit
  /\ MoreIdle
  /\ CodecIdle
  /\ replicaType \in {Master, Replica}
  /\ hcmd = NoCommand
  /\ hst = "idle"
  /\ hres = NoResult
  /\ hcall = 0
  /\ hseq = 0
  /\ PathIdle
  /\ ReplIdle

\* Handler.handleCommand up to its return or to its call of the engine
Handle(cmd) ==
  /\ ClientIdle
  /\ hst # "engine"
  /\ hseq < MaxCommands
  /\ LET r == handleCommand(replicaType, cmd, partitions) IN
     /\ r.engine => NextCall \in Calls
     /\ hcmd' = cmd
     /\ hseq' = hseq + 1
     /\ hst' = IF r.engine THEN "engine" ELSE "done"
     /\ hcall' = IF r.engine THEN NextCall ELSE 0
     /\ hres' = IF r.engine THEN NoResult ELSE [response |-> r.response, err |-> r.err]
  /\ UNCHANGED << replicaType, walVars, handlerRest >>

\* h.engine.Set / Delete / Clear: the call enters Service.Write
HandlerEngineCall ==
  /\ hst = "engine"
  /\ calls[hcall].st = "none"
  /\ EngineCall(EntryOf(hcmd))

\* the engine call has returned: handleCommand returns
HandlerReturn ==
  /\ hst = "engine"
  /\ calls[hcall].st = "done"
  /\ hst' = "done"
  /\ hres' = AfterEngine(calls[hcall].res)
  /\ UNCHANGED << replicaType, hcmd, hcall, hseq, walVars, handlerRest >>

\* a call of the engine that does not come through the handler
DirectCall(e) ==
  /\ hst # "engine"
  /\ SeqCall(e)

NextHandler ==
  \/ \E cmd \in Commands : Handle(cmd)
  \/ HandlerEngineCall
  \/ HandlerReturn
  \/ \E e \in Entries : DirectCall(e)
  \/ \E c \in Calls : WriteWait(c)
  \/ \E c \in Calls : EngineApply(c)
  \/ \E c \in Calls : TimerStart(c)
  \/ \E c \in Calls : TimerFire(c)
  \/ \E c \in Calls : TimerFlush(c)

SpecHandler == InitHandler /\ [][NextHandler]_vars

\* The process as app.New builds it: the engine is reached through the
\* handler alone, and the WAL is closed when the clients are idle.
NextNode ==
  \/ \E cmd \in Commands : Handle(cmd)
  \/ HandlerEngineCall
  \/ HandlerReturn
  \/ \E c \in Calls : WriteWait(c)
  \/ \E c \in Calls : EngineApply(c)
  \/ \E c \in Calls : TimerStart(c)
  \/ \E c \in Calls : TimerFire(c)
  \/ \E c \in Calls : TimerFlush(c)
  \/ \E k \in Closers : hst # "engine" /\ SeqClose(k)
  \/ \E k \in Closers : CloseSetNil(k)
  \/ \E k \in Closers : CloseFlush(k)

SpecNode == InitHandler /\ [][NextNode]_vars

(***************************************************************************)
(* Strings and paths.  A string is the sequence of its bytes; the          *)
(* operators follow package strings and package path/filepath on Unix.     *)
(***************************************************************************)
\* F applied to the value of x, which is computed once
With(x, F(_)) == CHOOSE r \in {F(v) : v \in {x}} : TRUE

Slash == 47
DotStr == <<46>>
DotDot == <<46, 46>>
WalPrefix == <<119, 97, 108, 45>>
LogSuffix == <<46, 108, 111, 103>>

HasPrefix(s, p) == Len(s) >= Len(p) /\ SubSeq(s, 1, Len(p)) = p
HasSuffix(s, p) == Len(s) >= Len(p) /\ SubSeq(s, Len(s) - Len(p) + 1, Len(s)) = p
Contains(s, p) == \E i \in 1..(Len(s) - Len(p) + 1) : SubSeq(s, i, i + Len(p) - 1) = p

RECURSIVE SplitAcc(_, _, _)
SplitAcc(s, elem, acc) ==
  IF s = <<>> THEN Append(acc, elem)
  ELSE IF Head(s) = Slash THEN SplitAcc(Tail(s), <<>>, Append(acc, elem))
  ELSE SplitAcc(Tail(s), Append(elem, Head(s)), acc)

\* the non-empty elements of a path between its separators
Elements(s) ==
  With(s, LAMBDA v : SelectSeq(SplitAcc(v, <<>>, <<>>), LAMBDA e : e # <<>>))

Rooted(s) == s # <<>> /\ s[1] = Slash

\* the loop of filepath.Clean over the elements: "." is dropped, ".." removes
\* the element before it, is dropped at the root and is kept at the start of a
\* relative path
RECURSIVE CleanElements(_, _, _)
CleanElements(els, rooted, out) ==
  IF els = <<>> THEN out
  ELSE IF Head(els) = DotStr THEN CleanElements(Tail(els), rooted, out)
  ELSE IF Head(els) = DotDot
  THEN IF out # <<>> /\ out[Len(out)] # DotDot
       THEN CleanElements(Tail(els), rooted, SubSeq(out, 1, Len(out) - 1))
       ELSE IF ~rooted THEN CleanElements(Tail(els), rooted, Append(out, DotDot))
       ELSE CleanElements(Tail(els), rooted, out)
  ELSE CleanElements(Tail(els), rooted, Append(out, Head(els)))

RECURSIVE JoinElements(_)
JoinElements(els) ==
  IF els = <<>> THEN <<>>
  ELSE IF Len(els) = 1 THEN els[1]
  ELSE els[1] \o <<Slash>> \o JoinElements(Tail(els))

\* filepath.Clean
Clean(s) ==
  With(s, LAMBDA v :
  With(Elements(v), LAMBDA els :
  With(CleanElements(els, Rooted(v), <<>>), LAMBDA out :
    IF Rooted(v) THEN <<Slash>> \o JoinElements(out)
    ELSE IF out = <<>> THEN DotStr
    ELSE JoinElements(out))))

\* filepath.Join of two elements
Join(a, b) ==
  With(a, LAMBDA x :
  With(b, LAMBDA y :
    IF x = <<>> /\ y = <<>> THEN <<>>
    ELSE IF x = <<>> THEN Clean(y)
    ELSE IF y = <<>> THEN Clean(x)
    ELSE Clean(x \o <<Slash>> \o y)))

\* the number of leading elements two paths share
CommonLen(bc, tc) ==
  CHOOSE k \in 0..Len(bc) :
    /\ k <= Len(tc)
    /\ \A i \in 1..k : bc[i] = tc[i]
    /\ (k = Len(bc) \/ k = Len(tc) \/ bc[k + 1] # tc[k + 1])

\* filepath.Rel of two cleaned paths, base with "." made empty
RelClean(b, targ) ==
  With(Elements(b), LAMBDA bc :
  With(Elements(targ), LAMBDA tc :
  With(CommonLen(bc, tc), LAMBDA k :
    IF Rooted(b) # Rooted(targ) THEN [path |-> <<>>, err |-> <<"Rel: can't make relative">>]
    ELSE IF k < Len(bc) /\ bc[k + 1] = DotDot
    THEN [path |-> <<>>, err |-> <<"Rel: can't make relative">>]
    ELSE [path |-> JoinElements([i \in 1..(Len(bc) - k) |-> DotDot] \o SubSeq(tc, k + 1, Len(tc))),
          err |-> Nil])))

\* filepath.Rel
Rel(basepath, targpath) ==
  With(Clean(basepath), LAMBDA base :
  With(Clean(targpath), LAMBDA targ :
    IF targ = base THEN [path |-> DotStr, err |-> Nil]
    ELSE RelClean(IF base = DotStr THEN <<>> ELSE base, targ)))

(***************************************************************************)
(* Replication: the functions of internal/replication on segment paths.    *)
(***************************************************************************)
\* validateSegmentPath once the paths are there: the checks of the relative path
checkRelPath(fullPath, rel) ==
  IF rel.err # Nil THEN [path |-> <<>>, err |-> <<"invalid path relationship">> \o rel.err]
  ELSE IF Contains(rel.path, DotDot) THEN [path |-> <<>>, err |-> <<"path traversal detected">>]
  ELSE [path |-> fullPath, err |-> Nil]

\* validateSegmentPath
validateSegmentPath(walDir, segName) ==
  With(segName, LAMBDA name :
    IF ~HasPrefix(name, WalPrefix) \/ ~HasSuffix(name, LogSuffix)
    THEN [path |-> <<>>, err |-> <<"invalid segment name format">>]
    ELSE With(Clean(walDir), LAMBDA dir :
         With(Clean(Join(dir, name)), LAMBDA fullPath :
         With(Rel(dir, fullPath), LAMBDA rel : checkRelPath(fullPath, rel)))))

\* safeReadSegment on file system fs: open, stat and read the file at the joined
\* and cleaned path
safeReadSegment(fs, walDir, segName) ==
  With(Clean(Join(Clean(walDir), segName)), LAMBDA fullPath :
    IF fullPath \notin DOMAIN fs
    THEN [data |-> <<>>, err |-> <<"failed to open file", "ENOENT">>]
    ELSE [data |-> fs[fullPath], err |-> Nil])


\* the walDir arguments: an absolute and a relative directory
WalDirs == {<<47, 100, 47, 119>>, <<119>>}

\* the segName arguments: a segment's name, another file's name, and names that
\* lead out of the directory or back into it
SegNames ==
  {<<119, 97, 108, 45, 49, 46, 108, 111, 103>>, <<120, 46, 108, 111, 103>>, <<46, 46, 47, 119, 97, 108, 45, 49, 46, 108, 111, 103>>, <<46, 47, 119, 97, 108, 45, 49, 46, 108, 111, 103>>,
   <<119, 97, 108, 45, 47, 46, 46, 47, 46, 46, 47, 120, 46, 108, 111, 103>>, <<119, 97, 108, 45, 47, 46, 46, 47, 119, 97, 108, 45, 49, 46, 108, 111, 103>>, <<46, 46, 47, 119, 47, 119, 97, 108, 45, 49, 46, 108, 111, 103>>}

\* the content of a file
FileData == <<7>>

\* the files that may exist: in walDir, in its parent and at the paths the
\* names above lead to
FilesOn(walDir) ==
  {Clean(Join(Clean(walDir), n)) : n \in SegNames}

InitPath ==
  /\ cfg = IdleCfg
  /\ WalInit
  /\ MoreIdle
  /\ CodecIdle
  /\ HandlerIdle
  /\ ReplIdle
  /\ pWalDir \in WalDirs
  /\ pSegName \in SegNames
  /\ \E present \in SUBSET FilesOn(pWalDir) : pFs = [f \in present |-> FileData]
  /\ pRes = NoPathResult
  /\ pSt = "new"

\* a call of validateSegmentPath
PathValidate ==
  /\ pSt = "new"
  /\ LET r == validateSegmentPath(pWalDir, pSegName) IN
     pRes' = [path |-> r.path, data |-> <<>>, err |-> r.err]
  /\ pSt' = "validated"
  /\ UNCHANGED << pWalDir, pSegName, pFs, pathRest >>

\* a call of safeReadSegment
PathRead ==
  /\ pSt = "new"
  /\ LET r == safeReadSegment(pFs, pWalDir, pSegName) IN
     pRes' = [path |-> <<>>, data |-> r.data, err |-> r.err]
  /\ pSt' = "read"
  /\ UNCHANGED << pWalDir, pSegName, pFs, pathRest >>

NextPath ==
  \/ PathValidate
  \/ PathRead

SpecPath == InitPath /\ [][NextPath]_vars

(***************************************************************************)
(* Numbers in text: fmt's %d on the connection, strconv.ParseInt on names. *)
(***************************************************************************)
Space == 32
Newline == 10
Minus == 45
Plus == 43
Zero == 48
IsDigit(b) == b >= Zero /\ b <= Zero + 9

RECURSIVE FormatNat(_)
FormatNat(n) == IF n < 10 THEN <<Zero + n>> ELSE FormatNat(n \div 10) \o <<Zero + (n % 10)>>

\* %d of fmt.Sprintf and fmt.Fprintf
FormatInt(n) ==
  With(n, LAMBDA v : IF v < 0 THEN <<Minus>> \o FormatNat(0 - v) ELSE FormatNat(v))

RECURSIVE ParseNat(_, _)
ParseNat(digits, acc) ==
  IF digits = <<>> THEN acc ELSE ParseNat(Tail(digits), 10 * acc + (Head(digits) - Zero))

\* strconv.ParseInt(s, 10, 64): an optional sign and at least one digit
ParseInt(str) ==
  With(str, LAMBDA v :
  With(IF v # <<>> /\ v[1] \in {Minus, Plus} THEN Tail(v) ELSE v, LAMBDA digits :
    IF digits = <<>> \/ \E i \in DOMAIN digits : ~IsDigit(digits[i])
    THEN [val |-> 0, err |-> <<"strconv.ParseInt: invalid syntax">>]
    ELSE [val |-> IF v[1] = Minus THEN 0 - ParseNat(digits, 0) ELSE ParseNat(digits, 0),
          err |-> Nil]))

\* the first position from i on that holds no space
RECURSIVE SkipSpace(_, _)
SkipSpace(str, i) == IF i <= Len(str) /\ str[i] = Space THEN SkipSpace(str, i + 1) ELSE i

\* the first position from i on that holds no digit
RECURSIVE SkipDigits(_, _)
SkipDigits(str, i) == IF i <= Len(str) /\ IsDigit(str[i]) THEN SkipDigits(str, i + 1) ELSE i

\* the verb %d of Fscanf at position i of the bytes that have arrived: "ok"
\* with the value and the position after it, "bad" with the error, or "more"
\* when the bytes end before the verdict
ScanInt(str, i) ==
  With(SkipSpace(str, i), LAMBDA j :
  With(IF j <= Len(str) /\ str[j] \in {Minus, Plus} THEN j + 1 ELSE j, LAMBDA k :
  With(SkipDigits(str, k), LAMBDA e :
    IF j > Len(str) THEN [st |-> "more", val |-> 0, next |-> j, err |-> Nil]
    ELSE IF str[j] = Newline
    THEN [st |-> "bad", val |-> 0, next |-> j, err |-> <<"unexpected newline">>]
    ELSE IF e > Len(str) THEN [st |-> "more", val |-> 0, next |-> e, err |-> Nil]
    ELSE IF e = k THEN [st |-> "bad", val |-> 0, next |-> e, err |-> <<"expected integer">>]
    ELSE [st |-> "ok", val |-> ParseInt(SubSeq(str, j, e - 1)).val, next |-> e, err |-> Nil])))

\* what Fscanf returns when it has no values
NoScan(st, err) == [st |-> st, a |-> 0, b |-> 0, rest |-> <<>>, err |-> err]

\* fmt.Fscanf(conn, "%d %d\n", &a, &b) on the bytes that have arrived
Fscanf(bytes) ==
  With(bytes, LAMBDA str :
  With(ScanInt(str, 1), LAMBDA a :
    IF a.st # "ok" THEN NoScan(a.st, a.err)
    ELSE With(ScanInt(str, a.next), LAMBDA b :
         IF b.st # "ok" THEN NoScan(b.st, b.err)
         ELSE With(SkipSpace(str, b.next), LAMBDA n :
              IF n > Len(str) THEN NoScan("more", Nil)
              ELSE IF str[n] # Newline
              THEN NoScan("bad", <<"newline in format does not match input">>)
              ELSE [st |-> "ok", a |-> a.val, b |-> b.val,
                    rest |-> SubSeq(str, n + 1, Len(str)), err |-> Nil]))))

\* fmt.Fprintf(conn, "%d %d\n", a, b)
Fprintf(a, b) == FormatInt(a) \o <<Space>> \o FormatInt(b) \o <<Newline>>

(***************************************************************************)
(* Replication: internal/replication, master.go and replica.go.            *)
(***************************************************************************)
MaxUnread == 2

MasterWalDir == <<47, 109>>
ReplicaWalDir == <<47, 114>>

errTimeout == <<"timeout">>

\* the last element of a path
Base(path) == With(Elements(path), LAMBDA els : els[Len(els)])

\* the path is that of a direct child of the directory
DirectChild(walDir, path) ==
  \E d \in {With(Clean(walDir), LAMBDA c : IF c = <<Slash>> THEN c ELSE c \o <<Slash>>)} :
    /\ HasPrefix(path, d)
    /\ Len(path) > Len(d)
    /\ \A i \in (Len(d) + 1)..Len(path) : path[i] # Slash

\* os.ReadDir: the names of the files of a directory
ReadDir(fs, dir) == {Base(q) : q \in {f \in DOMAIN fs : DirectChild(dir, f)}}

\* fmt.Sprintf("wal-%d.log", id)
SegmentName(id) == WalPrefix \o FormatInt(id) \o LogSuffix

\* strings.TrimPrefix
TrimPrefix(s, p) == IF HasPrefix(s, p) THEN SubSeq(s, Len(p) + 1, Len(s)) ELSE s

\* strings.TrimSuffix
TrimSuffix(s, p) == IF HasSuffix(s, p) THEN SubSeq(s, 1, Len(s) - Len(p)) ELSE s

\* segment.ParseSegmentName
ParseSegmentName(name) ==
  With(name, LAMBDA n :
  With(TrimPrefix(n, WalPrefix), LAMBDA t : ParseInt(TrimSuffix(t, LogSuffix))))

\* the infos of a set in the order of their IDs
SortByID(set) ==
  With(set, LAMBDA infos :
    CHOOSE q \in [1..Cardinality(infos) -> infos] :
      \A i, j \in DOMAIN q : i < j => q[i] # q[j] /\ q[i].ID <= q[j].ID)

\* segment.ListSegments on a directory of files with names: the infos of the
\* names that pass the filter and parse, sorted by ID
ListSegmentInfos(fs, dir) ==
  SortByID({[ID |-> ParseSegmentName(n).val, Name |-> n] :
              n \in {x \in ReadDir(fs, dir) :
                       /\ ~Contains(x, DotDot)
                       /\ HasPrefix(x, WalPrefix)
                       /\ HasSuffix(x, LogSuffix)
                       /\ ParseSegmentName(x).err = Nil}})

\* os.WriteFile(path, data)
WriteFile(fs, path, data) ==
  [f \in DOMAIN fs \cup {path} |-> IF f = path THEN data ELSE fs[f]]

\* the files of fs that os.OpenFile opens when it fails at the paths bad
Openable(fs, bad) == [f \in DOMAIN fs \ bad |-> fs[f]]

\* Manager.getCurrentWALSize: the size of the last segment's file
getCurrentWALSize(fs) ==
  With(ListSegmentInfos(fs, MasterWalDir), LAMBDA segs :
    IF segs = <<>> THEN 0 ELSE Len(fs[Join(MasterWalDir, segs[Len(segs)].Name)]))

\* Manager.sendSegment: the header, then the data
sendSegment(conn, seg, bytes) ==
  With(bytes, LAMBDA data : conn \o Fprintf(seg.ID, Len(data)) \o data)

\* a processSingleSegment that sends the whole file of the segment the
\* connection already knows
afterReadResend(st, seg, r) ==
  IF r.err # Nil THEN st
  ELSE IF seg.ID < st.last.id THEN st
  ELSE IF seg.ID = st.last.id /\ Len(r.data) <= st.last.size THEN st
  ELSE [last |-> [id |-> seg.ID, size |-> Len(r.data)],
        down |-> sendSegment(st.down, seg, r.data),
        panicked |-> FALSE]

\* a tracker and a connection at the start of a pass of sendUpdatedSegments
SendState(last, conn) == [last |-> last, down |-> conn, panicked |-> FALSE]

\* Manager.processSingleSegment after safeReadSegment returned r, in state st
\* (last, down, panicked); data[*lastSegmentSize:] with a negative
\* lastSegmentSize panics (slice bounds out of range)
afterRead(st, seg, r) ==
  IF r.err # Nil THEN st
  ELSE IF seg.ID < st.last.id THEN st
  ELSE IF seg.ID = st.last.id
  THEN IF Len(r.data) <= st.last.size THEN st
       ELSE IF st.last.size < 0 THEN [st EXCEPT !.panicked = TRUE]
       ELSE [last |-> [id |-> st.last.id, size |-> Len(r.data)],
             down |-> sendSegment(st.down, seg, SubSeq(r.data, st.last.size + 1, Len(r.data))),
             panicked |-> FALSE]
  ELSE [last |-> [id |-> seg.ID, size |-> Len(r.data)],
        down |-> sendSegment(st.down, seg, r.data),
        panicked |-> FALSE]

\* Manager.processSingleSegment with state st (last, down, panicked); after a
\* panic nothing runs
processSingleSegment(fs, state, seg) ==
  With(state, LAMBDA st :
    IF st.panicked THEN st
    ELSE With(safeReadSegment(fs, MasterWalDir, seg.Name), LAMBDA r : afterRead(st, seg, r)))

\* Manager.sendUpdatedSegments: processSingleSegment on each segment in turn
RECURSIVE sendUpdatedSegments(_, _, _)
sendUpdatedSegments(fs, st, segs) ==
  IF segs = <<>> THEN st
  ELSE sendUpdatedSegments(fs, processSingleSegment(fs, st, Head(segs)), Tail(segs))

\* Manager.updateLastSegmentInfo on the replica's directory
updateLastSegmentInfo(fs, last) ==
  With(ListSegmentInfos(fs, ReplicaWalDir), LAMBDA segs :
    IF segs = <<>> THEN last
    ELSE [id |-> segs[Len(segs)].ID,
          size |-> Len(fs[Join(ReplicaWalDir, segs[Len(segs)].Name)])])

\* what readSegmentHeader returns when it has no header
NoHeader(err) == [err |-> err, id |-> 0, size |-> 0, rest |-> <<>>]

\* a reader of headers that takes a header it cannot parse for "0 0"
readSegmentHeaderLenient(str, open) ==
  With(Fscanf(str), LAMBDA f :
    IF f.st = "ok" THEN [err |-> Nil, id |-> f.a, size |-> f.b, rest |-> f.rest]
    ELSE IF f.st = "more" /\ open THEN NoHeader(errTimeout)
    ELSE IF f.st = "more" /\ str = <<>> THEN NoHeader(EOF)
    ELSE NoHeader(Nil))

\* Manager.readSegmentHeader on the bytes that have arrived, with the peer's
\* end open or closed: when the bytes end before the header does, the read
\* deadline passes (open) or the stream ends (closed)
readSegmentHeader(str, open) ==
  With(Fscanf(str), LAMBDA f :
    IF f.st = "ok" THEN [err |-> Nil, id |-> f.a, size |-> f.b, rest |-> f.rest]
    ELSE IF f.st = "more" /\ open THEN NoHeader(errTimeout)
    ELSE IF f.st = "more" /\ str = <<>> THEN NoHeader(EOF)
    ELSE IF f.st = "more" THEN NoHeader(<<"failed to read segment header">> \o ErrUnexpectedEOF)
    ELSE NoHeader(<<"failed to read segment header">> \o f.err))

\* m.conn.Read(data) for a buffer of size bytes: one read takes the bytes that
\* have arrived, up to size, and leaves the rest of the buffer zero
connRead(str, open, size) ==
  IF size = 0 THEN [err |-> Nil, data |-> <<>>, rest |-> str]
  ELSE IF str = <<>>
  THEN [err |-> IF open THEN errTimeout ELSE EOF, data |-> <<>>, rest |-> str]
  ELSE With(IF size <= Len(str) THEN size ELSE Len(str), LAMBDA n :
       [err |-> Nil,
        data |-> SubSeq(str, 1, n) \o [i \in 1..(size - n) |-> 0],
        rest |-> SubSeq(str, n + 1, Len(str))])

\* what a turn of the receive loop leaves when it writes no file
NoWrite(st, err, fs, last, str) ==
  [st |-> st, err |-> err, fs |-> fs, last |-> last, down |-> str, wrote |-> {}]

\* Manager.processReceivedSegment once the path is validated and the data are
\* read into the buffer: append to the file of the last segment or replace the
\* file, and remember the segment
writeReceived(fs, segmentID, path, data, rest) ==
  [st |-> "receive", err |-> Nil, fs |-> WriteFile(fs, path, data),
   last |-> [id |-> segmentID, size |-> Len(data)], down |-> rest, wrote |-> {path}]

\* Manager.processReceivedSegment after a header (segmentID, size), with the
\* bytes str behind the header: the state of the session after it
processReceivedSegment(fs, last, segmentID, size, str, open) ==
  With(validateSegmentPath(ReplicaWalDir, SegmentName(segmentID)), LAMBDA v :
    IF v.err # Nil THEN NoWrite("failed", <<"invalid segment path">> \o v.err, fs, last, str)
    ELSE IF size < 0 THEN NoWrite("panicked", <<"makeslice: len out of range">>, fs, last, str)
    ELSE With(connRead(str, open, size), LAMBDA r :
         IF r.err # Nil
         THEN NoWrite("failed", <<"failed to read segment data">> \o r.err, fs, last, str)
         ELSE writeReceived(fs, segmentID, v.path,
                            IF segmentID = last.id /\ v.path \in DOMAIN fs
                            THEN fs[v.path] \o r.data ELSE r.data,
                            r.rest)))

\* one turn of the loop of Manager.receiveAndProcessSegments after
\* readSegmentHeader returned h
afterHeader(fs, last, open, h) ==
  IF h.err \in {errTimeout, EOF} THEN NoWrite("cycle", Nil, fs, last, <<>>)
  ELSE IF h.err # Nil THEN NoWrite("failed", h.err, fs, last, <<>>)
  ELSE processReceivedSegment(fs, last, h.id, h.size, h.rest, open)

\* the number of lines in a stream of headers
Lines(str) == Cardinality({i \in DOMAIN str : str[i] = Newline})

\* syncWithMaster, start of a cycle: updateLastSegmentInfo and sendSegmentInfo
ReplicaSendInfo ==
  /\ rSt = "cycle"
  /\ Lines(up) < MaxUnread
  /\ \E l \in {updateLastSegmentInfo(rFs, rLast)} :
     /\ rLast' = l
     /\ up' = up \o Fprintf(l.id, l.size)
  /\ rSt' = "receive"
  /\ UNCHANGED << mFs, rFs, down, peerOpen, rErr, rWrote, mSt, mLast, changes, monLast >>
  /\ UNCHANGED replRest

\* receiveAndProcessSegments: a header and its segment, or the error that ends
\* the session
ReplicaReceive ==
  /\ rSt = "receive"
  /\ \E h \in {readSegmentHeader(down, peerOpen)} :
     \E o \in {afterHeader(rFs, rLast, peerOpen, h)} :
     /\ o.st # "cycle"
     /\ rSt' = o.st
     /\ rErr' = o.err
     /\ rFs' = o.fs
     /\ rLast' = o.last
     /\ down' = o.down
     /\ rWrote' = rWrote \cup o.wrote
  /\ UNCHANGED << mFs, up, peerOpen, mSt, mLast, changes, monLast >>
  /\ UNCHANGED replRest

\* receiveAndProcessSegments: the read deadline passes or the stream ends, the
\* loop is left and the next cycle starts
ReplicaBreak ==
  /\ rSt = "receive"
  /\ \E h \in {readSegmentHeader(down, peerOpen)} :
     \E o \in {afterHeader(rFs, rLast, peerOpen, h)} :
     /\ o.st = "cycle"
     /\ down' = o.down
  /\ rSt' = "cycle"
  /\ UNCHANGED << mFs, rFs, up, peerOpen, rLast, rErr, rWrote, mSt, mLast, changes, monLast >>
  /\ UNCHANGED replRest

\* monitorWALChanges: the size has grown, a signal is put into the channel
\* unless one is there
MonitorTick ==
  /\ mSt \in {"select", "reading"}
  /\ \E size \in {getCurrentWALSize(mFs)} :
     /\ size > monLast
     /\ monLast' = size
  /\ changes' = 1
  /\ UNCHANGED << mFs, rFs, up, down, peerOpen, rSt, rLast, rErr, rWrote, mSt, mLast >>
  /\ UNCHANGED replRest

\* processReplicaSync, case <-changes: send without reading the replica's state
MasterSelectChange ==
  /\ mSt = "select"
  /\ changes = 1
  /\ changes' = 0
  /\ \E segs \in {ListSegmentInfos(mFs, MasterWalDir)} :
     \E o \in {sendUpdatedSegments(Openable(mFs, unreadable), SendState(mLast, down), segs)} :
     /\ mLast' = o.last
     /\ down' = o.down
     /\ mSt' = IF o.panicked THEN "panicked" ELSE mSt
  /\ UNCHANGED << mFs, rFs, up, peerOpen, rSt, rLast, rErr, rWrote, monLast >>
  /\ UNCHANGED replRest

\* processReplicaSync, default: go on to read the replica's state
MasterSelectDefault ==
  /\ mSt = "select"
  /\ changes = 0
  /\ mSt' = "reading"
  /\ UNCHANGED << mFs, rFs, up, down, peerOpen, rSt, rLast, rErr, rWrote, mLast, changes,
                  monLast >>
  /\ UNCHANGED replRest

\* readReplicaState, once bytes have arrived, and sendUpdatedSegments
MasterReadState ==
  /\ mSt = "reading"
  /\ \E f \in {Fscanf(up)} :
     /\ f.st # "more"
     /\ IF f.st = "ok"
        THEN \E segs \in {ListSegmentInfos(mFs, MasterWalDir)} :
             \E o \in {sendUpdatedSegments(Openable(mFs, unreadable),
                                              SendState([id |-> f.a, size |-> f.b], down), segs)} :
             /\ mLast' = o.last
             /\ down' = o.down
             /\ up' = f.rest
             /\ mSt' = IF o.panicked THEN "panicked" ELSE "select"
             /\ UNCHANGED peerOpen
        ELSE /\ mSt' = "ended"
             /\ peerOpen' = FALSE
             /\ up' = <<>>
             /\ UNCHANGED << mLast, down >>
  /\ UNCHANGED << mFs, rFs, rSt, rLast, rErr, rWrote, changes, monLast >>
  /\ UNCHANGED replRest

\* the path of segment id in a directory
SegPath(dir, id) == Join(dir, SegmentName(id))

\* the master's directory after its WAL has stopped: one segment, or two
MasterSegments ==
  {(1 :> <<1, 2>>), (1 :> <<1, 2>>) @@ (2 :> <<3>>)}

\* a directory with the given segments
DirOf(dir, segs) ==
  [f \in {SegPath(dir, id) : id \in DOMAIN segs} |->
     segs[CHOOSE id \in DOMAIN segs : SegPath(dir, id) = f]]

\* the segments of a replica before the connection: some of the master's, each
\* a prefix of the master's
PrefixesOf(segs) ==
  UNION {{p \in [ids -> UNION {{SubSeq(segs[id], 1, n) : n \in 0..Len(segs[id])} : id \in ids}] :
            \A id \in ids : \E n \in 0..Len(segs[id]) : p[id] = SubSeq(segs[id], 1, n)} :
         ids \in SUBSET DOMAIN segs}

InitRepl ==
  /\ cfg = IdleCfg
  /\ WalInit
  /\ MoreIdle
  /\ CodecIdle
  /\ HandlerIdle
  /\ PathIdle
  /\ \E m \in MasterSegments :
       /\ mFs = DirOf(MasterWalDir, m)
       /\ \E r \in PrefixesOf(m) : rFs = DirOf(ReplicaWalDir, r)
  /\ up = <<>>
  /\ down = <<>>
  /\ peerOpen = TRUE
  /\ rSt = "cycle"
  /\ rLast = NoLast
  /\ rErr = <<>>
  /\ rWrote = {}
  /\ mSt = "select"
  /\ mLast = NoLast
  /\ changes = 0
  /\ monLast = 0

NextRepl ==
  \/ ReplicaSendInfo
  \/ ReplicaReceive
  \/ ReplicaBreak
  \/ MonitorTick
  \/ MasterSelectChange
  \/ MasterSelectDefault
  \/ MasterReadState

SpecRepl == InitRepl /\ [][NextRepl]_vars

\* the goroutines of both sides keep running and the read deadlines pass
SpecReplFair ==
  /\ SpecRepl
  /\ WF_vars(ReplicaSendInfo)
  /\ WF_vars(ReplicaReceive)
  /\ WF_vars(ReplicaBreak)
  /\ WF_vars(MonitorTick)
  /\ WF_vars(MasterSelectChange)
  /\ WF_vars(MasterSelectDefault)
  /\ WF_vars(MasterReadState)

(***************************************************************************)
(* The replica against a peer it cannot trust: whatever listens on the     *)
(* master's address decides the bytes that receiveAndProcessSegments       *)
(* reads.                                                                  *)
(***************************************************************************)
MaxDown == 5
MaxStored == 2

\* what the peer may put on the wire in one write: a header that parses, with
\* the data behind it or without, with a size of zero or a negative size; a
\* line that does not parse; the start of a header; data
PeerChunks ==
  {<<49, 32, 49, 10>>, <<50, 32, 48, 10>>, <<49, 32, 45, 49, 10>>, <<49, 32, 120, 10>>, <<50, 32>>, <<7>>}

\* the peer writes to the connection
PeerSend ==
  /\ mSt = "idle"
  /\ peerOpen
  /\ rSt \in {"cycle", "receive"}
  /\ \A f \in DOMAIN rFs : Len(rFs[f]) <= MaxStored
  /\ \E c \in PeerChunks :
     /\ Len(down) + Len(c) <= MaxDown
     /\ down' = down \o c
  /\ UNCHANGED << mFs, rFs, up, peerOpen, rSt, rLast, rErr, rWrote, mSt, mLast, changes, monLast >>
  /\ UNCHANGED replRest

\* the peer reads what the replica has sent
PeerDrain ==
  /\ mSt = "idle"
  /\ peerOpen
  /\ up # <<>>
  /\ up' = <<>>
  /\ UNCHANGED << mFs, rFs, down, peerOpen, rSt, rLast, rErr, rWrote, mSt, mLast, changes, monLast >>
  /\ UNCHANGED replRest

\* the peer closes the connection
PeerClose ==
  /\ mSt = "idle"
  /\ peerOpen
  /\ rSt \in {"cycle", "receive"}
  /\ peerOpen' = FALSE
  /\ UNCHANGED << mFs, rFs, up, down, rSt, rLast, rErr, rWrote, mSt, mLast, changes, monLast >>
  /\ UNCHANGED replRest

\* the replica's directory when it connects
ReplicaDirs == {<<>>, (1 :> <<>>), (1 :> <<7>>), (1 :> <<7>>) @@ (2 :> <<>>)}

InitReceive ==
  /\ cfg = IdleCfg
  /\ WalInit
  /\ MoreIdle
  /\ CodecIdle
  /\ HandlerIdle
  /\ PathIdle
  /\ mFs = <<>>
  /\ \E r \in ReplicaDirs : rFs = DirOf(ReplicaWalDir, r)
  /\ up = <<>>
  /\ down = <<>>
  /\ peerOpen = TRUE
  /\ rSt = "cycle"
  /\ rLast = NoLast
  /\ rErr = <<>>
  /\ rWrote = {}
  /\ mSt = "idle"
  /\ mLast = NoLast
  /\ changes = 0
  /\ monLast = 0

NextReceive ==
  \/ ReplicaSendInfo
  \/ ReplicaReceive
  \/ ReplicaBreak
  \/ PeerSend
  \/ PeerDrain
  \/ PeerClose

SpecReceive == InitReceive /\ [][NextReceive]_vars

(***************************************************************************)
(* The master against a replica it cannot trust: whatever has connected    *)
(* decides the tail reports that readReplicaState reads.                   *)
(***************************************************************************)
\* the reports of the peer: a tail of segment 1, a negative size, a size
\* beyond the file, an id the master does not have, the report of an empty
\* directory, a tail of segment 2
Reports ==
  {Fprintf(1, 1), Fprintf(1, -1), Fprintf(1, 5), Fprintf(9, 0), Fprintf(-1, 0), Fprintf(2, 0)}

\* the peer writes a report
ReportSend ==
  /\ mSt \in {"select", "reading"}
  /\ up = <<>>
  /\ down = <<>>
  /\ \E r \in Reports : up' = r
  /\ UNCHANGED << mFs, rFs, down, peerOpen, rSt, rLast, rErr, rWrote, mSt, mLast, changes,
                  monLast >>
  /\ UNCHANGED replRest

\* the peer reads what the master has sent
DownDrain ==
  /\ down # <<>>
  /\ down' = <<>>
  /\ UNCHANGED << mFs, rFs, up, peerOpen, rSt, rLast, rErr, rWrote, mSt, mLast, changes,
                  monLast >>
  /\ UNCHANGED replRest

\* handleReplicaConnection has started for a connection: the tracker is
\* (-1, 0), the monitor runs
InitReports ==
  /\ cfg = IdleCfg
  /\ WalInit
  /\ MoreIdle
  /\ CodecIdle
  /\ HandlerIdle
  /\ PathIdle
  /\ \E m \in MasterSegments : mFs = DirOf(MasterWalDir, m)
  /\ rFs = <<>>
  /\ up = <<>>
  /\ down = <<>>
  /\ peerOpen = TRUE
  /\ rSt = "peer"
  /\ rLast = NoLast
  /\ rErr = <<>>
  /\ rWrote = {}
  /\ mSt = "select"
  /\ mLast = NoLast
  /\ changes = 0
  /\ monLast = 0

NextReports ==
  \/ ReportSend
  \/ DownDrain
  \/ MonitorTick
  \/ MasterSelectChange
  \/ MasterSelectDefault
  \/ MasterReadState

SpecReports == InitReports /\ [][NextReports]_vars

(***************************************************************************)
(* Master and replica while os.OpenFile on the master's segment files may  *)
(* fail for a time (EMFILE, EACCES): safeReadSegment returns the error and *)
(* processSingleSegment logs it.                                           *)
(***************************************************************************)
gapRest == << walVars, codecVars, handlerVars, pathVars, replVars, appVars, segVars, srvVars,
              idVars, netVars, dialVars, monVars, lockVars >>

\* os.OpenFile starts to fail at a segment's path
OpenFault ==
  /\ unreadable = {}
  /\ \E f \in DOMAIN mFs : unreadable' = {f}
  /\ UNCHANGED gapRest

\* os.OpenFile succeeds again
OpenRepair ==
  /\ unreadable # {}
  /\ unreadable' = {}
  /\ UNCHANGED gapRest

NextGap ==
  \/ ReplicaSendInfo
  \/ ReplicaReceive
  \/ ReplicaBreak
  \/ MonitorTick
  \/ MasterSelectChange
  \/ MasterSelectDefault
  \/ MasterReadState
  \/ OpenFault
  \/ OpenRepair

SpecGap == InitRepl /\ [][NextGap]_vars

(***************************************************************************)
(* A segment on its own: the caller got it from NewSegment and calls       *)
(* Write, Sync and Close on it in any order, Close more than once too.     *)
(***************************************************************************)
MaxSegOps == 4

\* what the steps of the caller of the segment leave alone
segRest == << cfg, batch, flushDone, timerActive, flushTimer, quit, mu, quitClosed,
              timers, chans, calls, tg, closer, partitions, phase, failedFlush,
              oldPartitions, codecVars, handlerVars, pathVars, replVars, appVars,
              srvVars, idVars, lateVars >>

\* segment.Write(entry)
SegWrite(e) ==
  /\ segSt = "used"
  /\ segOps < MaxSegOps
  /\ \E o \in SegmentWrite(Files, [call |-> 1, e |-> e]) :
     /\ SetFiles(o.s)
     /\ segRes' = o.err
  /\ segOps' = segOps + 1
  /\ UNCHANGED << segSt, segCloses, segClosedOk >>
  /\ UNCHANGED segRest

\* segment.Sync()
SegSync ==
  /\ segSt = "used"
  /\ segOps < MaxSegOps
  /\ \E o \in SegmentSync(Files) :
     /\ SetFiles(o.s)
     /\ segRes' = o.err
  /\ segOps' = segOps + 1
  /\ UNCHANGED << segSt, segCloses, segClosedOk >>
  /\ UNCHANGED segRest

\* segment.Close()
SegClose ==
  /\ segSt = "used"
  /\ segOps < MaxSegOps
  /\ \E o \in SegmentClose(Files) :
     /\ SetFiles(o.s)
     /\ segRes' = o.err
     /\ segClosedOk' = (segClosedOk \/ o.err = Nil)
  /\ segOps' = segOps + 1
  /\ segCloses' = segCloses + 1
  /\ UNCHANGED segSt
  /\ UNCHANGED segRest

\* NewSegment has returned the segment: no file yet
InitSegment ==
  /\ cfg = IdleCfg
  /\ WalInit
  /\ CodecIdle
  /\ HandlerIdle
  /\ PathIdle
  /\ ReplIdle
  /\ ServerIdle
  /\ IdIdle
  /\ LateIdle
  /\ segSt = "used"
  /\ segRes = <<>>
  /\ segOps = 0
  /\ segCloses = 0
  /\ segClosedOk = FALSE

NextSegment ==
  \/ \E e \in Entries : SegWrite(e)
  \/ SegSync
  \/ SegClose

SpecSegment == InitSegment /\ [][NextSegment]_vars

(***************************************************************************)
(* Server: internal/server/server.go.  The clients connect and go as they  *)
(* like; the accept loop takes one connection at a time.                   *)
(***************************************************************************)
NumConns == 4
MaxServed == 1
MaxConnectionsValues == 0..2

Conns == 1..NumConns

\* a check that lets a connection in while connCount is not above the maximum
canAcceptConnectionAtMax(count, max) ==
  IF count > max THEN [ok |-> FALSE, count |-> count]
  ELSE [ok |-> TRUE, count |-> count + 1]

\* Server.canAcceptConnection: under the lock, refuse at the maximum, else count
canAcceptConnection(count, max) ==
  IF count >= max THEN [ok |-> FALSE, count |-> count]
  ELSE [ok |-> TRUE, count |-> count + 1]

\* what the steps of the server leave alone
srvRest == << walVars, codecVars, handlerVars, pathVars, replVars, appVars, segVars,
             idVars, lateVars >>

\* Server.Start, one turn of the loop: Accept returns connection i; it is
\* closed when canAcceptConnection refuses it, else handleConnection is spawned
Accept(i) ==
  /\ conns # <<>>
  /\ conns[i] = "none"
  /\ \E a \in {canAcceptConnection(connCount, maxConnections)} :
     /\ connCount' = a.count
     /\ conns' = [conns EXCEPT ![i] = IF a.ok THEN "spawned" ELSE "rejected"]
  /\ UNCHANGED << maxConnections, served >>
  /\ UNCHANGED srvRest

\* handleConnection starts: the deferred function is set, the reader is made
HandleStart(i) ==
  /\ conns # <<>>
  /\ conns[i] = "spawned"
  /\ conns' = [conns EXCEPT ![i] = "serving"]
  /\ UNCHANGED << maxConnections, connCount, served >>
  /\ UNCHANGED srvRest

\* handleConnection, one turn of the loop: a line is read, handled and answered
HandleLine(i) ==
  /\ conns # <<>>
  /\ conns[i] = "serving"
  /\ served[i] < MaxServed
  /\ served' = [served EXCEPT ![i] = @ + 1]
  /\ UNCHANGED << maxConnections, connCount, conns >>
  /\ UNCHANGED srvRest

\* handleConnection returns (the client is gone, or a read or write failed):
\* the deferred function closes the connection and calls connections.Done
HandleReturn(i) ==
  /\ conns # <<>>
  /\ conns[i] = "serving"
  /\ conns' = [conns EXCEPT ![i] = "closed"]
  /\ UNCHANGED << maxConnections, connCount, served >>
  /\ UNCHANGED srvRest

\* the deferred function, last step: decrementConnCount
decrementConnCount(i) ==
  /\ conns # <<>>
  /\ conns[i] = "closed"
  /\ connCount' = connCount - 1
  /\ conns' = [conns EXCEPT ![i] = "done"]
  /\ UNCHANGED << maxConnections, served >>
  /\ UNCHANGED srvRest

\* NewServer: no connection yet
InitServer ==
  /\ cfg = IdleCfg
  /\ WalInit
  /\ CodecIdle
  /\ HandlerIdle
  /\ PathIdle
  /\ ReplIdle
  /\ SegIdle
  /\ IdIdle
  /\ LateIdle
  /\ maxConnections \in MaxConnectionsValues
  /\ connCount = 0
  /\ conns = [i \in Conns |-> "none"]
  /\ served = [i \in Conns |-> 0]

NextServer ==
  \/ \E i \in Conns : Accept(i)
  \/ \E i \in Conns : HandleStart(i)
  \/ \E i \in Conns : HandleLine(i)
  \/ \E i \in Conns : HandleReturn(i)
  \/ \E i \in Conns : decrementConnCount(i)

SpecServer == InitServer /\ [][NextServer]_vars

(***************************************************************************)
(* Segment names: NewSegmentInfo takes the id of a segment from the wall   *)
(* clock, time.Now().UnixNano().  Between two readings the wall clock may  *)
(* have advanced, may still show the same value (two readings within one   *)
(* tick of the clock), or may have been set back.                          *)
(***************************************************************************)
MaxClock == 3
MaxCreated == 3
MaxSteps == 1

DataDir == <<47, 119>>

\* the names that lie in the directory before the process starts
ForeignNames == {<<120, 46, 108, 111, 103>>, <<119, 97, 108, 45, 97, 46, 108, 111, 103>>, <<119, 97, 108, 45, 48, 46, 108, 111, 103>>}

\* what the steps of the process that names segments leave alone
idRest == << walVars, codecVars, handlerVars, pathVars, replVars, appVars, segVars,
            srvVars, lateVars >>

\* the wall clock advances
ClockTick ==
  /\ wallClock < MaxClock
  /\ wallClock' = wallClock + 1
  /\ UNCHANGED << steps, createdIds, idFs, idRes >>
  /\ UNCHANGED idRest

\* the wall clock is set back
ClockSetBack ==
  /\ steps < MaxSteps
  /\ wallClock > 1
  /\ \E t \in 1..(wallClock - 1) : wallClock' = t
  /\ steps' = steps + 1
  /\ UNCHANGED << createdIds, idFs, idRes >>
  /\ UNCHANGED idRest

\* NewSegment with NewSegmentInfo, then CreateSegmentFile at the first Write:
\* the id is the reading of the clock, the file is created unless it exists
NewSegmentFile ==
  /\ wallClock > 0
  /\ Len(createdIds) < MaxCreated
  /\ createdIds' = Append(createdIds, wallClock)
  /\ \E path \in {Join(DataDir, SegmentName(wallClock))} :
       IF path \in DOMAIN idFs
       THEN /\ idRes' = <<"failed to create segment file", "file exists">>
            /\ UNCHANGED idFs
       ELSE /\ idRes' = Nil
            /\ idFs' = WriteFile(idFs, path, <<>>)
  /\ UNCHANGED << wallClock, steps >>
  /\ UNCHANGED idRest

\* a process starts on a directory
InitIds ==
  /\ cfg = IdleCfg
  /\ WalInit
  /\ CodecIdle
  /\ HandlerIdle
  /\ PathIdle
  /\ ReplIdle
  /\ SegIdle
  /\ ServerIdle
  /\ LateIdle
  /\ wallClock = 1
  /\ steps = 0
  /\ createdIds = <<>>
  /\ \E names \in SUBSET ForeignNames :
       idFs = [f \in {Join(DataDir, n) : n \in names} |-> <<>>]
  /\ idRes = <<>>

NextIds ==
  \/ ClockTick
  \/ ClockSetBack
  \/ NewSegmentFile

SpecIds == InitIds /\ [][NextIds]_vars

(***************************************************************************)
(* The master's answer on its way: the master has answered the replica's  *)
(* first report with one pass of sendUpdatedSegments, and the transport    *)
(* hands the bytes to the replica's reads in pieces.                       *)
(***************************************************************************)
\* what a step of the transport leaves alone
netRest == << walVars, codecVars, handlerVars, pathVars, appVars, segVars, srvVars, idVars,
              dialVars, monVars, faultVars, lockVars >>

\* some of the bytes on the wire arrive at the replica
Deliver ==
  /\ wire # <<>>
  /\ \E k \in 1..Len(wire) :
     /\ down' = down \o SubSeq(wire, 1, k)
     /\ wire' = SubSeq(wire, k + 1, Len(wire))
  /\ UNCHANGED << mFs, rFs, up, peerOpen, rSt, rLast, rErr, rWrote, mSt, mLast, changes, monLast >>
  /\ UNCHANGED netRest

\* the replica has sent its first report (updateLastSegmentInfo and
\* sendSegmentInfo) and the master has written its answer
InitDeliver ==
  /\ cfg = IdleCfg
  /\ WalInit
  /\ SegIdle
  /\ ServerIdle
  /\ IdIdle
  /\ DialIdle
  /\ MonIdle
  /\ FaultIdle
  /\ LockIdle
  /\ CodecIdle
  /\ HandlerIdle
  /\ PathIdle
  /\ \E m \in MasterSegments :
       /\ mFs = DirOf(MasterWalDir, m)
       /\ \E r \in PrefixesOf(m) : rFs = DirOf(ReplicaWalDir, r)
  /\ rLast = updateLastSegmentInfo(rFs, NoLast)
  /\ \E o \in {sendUpdatedSegments(mFs, SendState(rLast, <<>>),
                                    ListSegmentInfos(mFs, MasterWalDir))} :
       /\ wire = o.down
       /\ mLast = o.last
  /\ up = <<>>
  /\ down = <<>>
  /\ peerOpen = TRUE
  /\ rSt = "receive"
  /\ rErr = <<>>
  /\ rWrote = {}
  /\ mSt = "idle"
  /\ changes = 0
  /\ monLast = 0

NextDeliver ==
  \/ Deliver
  \/ ReplicaReceive
  \/ ReplicaBreak
  \/ ReplicaSendInfo
  \/ PeerDrain

SpecDeliver == InitDeliver /\ [][NextDeliver]_vars

(***************************************************************************)
(* The replica's goroutine: startReplica calls maintainMasterConnection    *)
(* again and again, and maintainMasterConnection dials the master.         *)
(***************************************************************************)
MaxRounds == 3
SyncRetryCounts == 1..3

\* what a step of the replica's goroutine leaves alone
dialRest == << walVars, codecVars, handlerVars, pathVars, replVars, appVars, segVars, srvVars,
               idVars, netVars, monVars, faultVars, lockVars >>

\* startReplica calls maintainMasterConnection: retryCount := SyncRetryCount
\* and the loop is entered
MaintainStart ==
  /\ dSt = "outer"
  /\ rounds < MaxRounds
  /\ retryCount' = syncRetryCount
  /\ attempts' = 0
  /\ sleeps' = 0
  /\ dSt' = "dial"
  /\ UNCHANGED << syncRetryCount, rounds >>
  /\ UNCHANGED dialRest

\* net.Dial fails: one retry less and a sleep, or the error is returned
\* when no retry is left
DialFail ==
  /\ dSt = "dial"
  /\ attempts' = attempts + 1
  /\ IF retryCount > 0
     THEN /\ retryCount' = retryCount - 1
          /\ dSt' = "sleep"
     ELSE /\ dSt' = "failed"
          /\ UNCHANGED retryCount
  /\ UNCHANGED << syncRetryCount, sleeps, rounds >>
  /\ UNCHANGED dialRest

\* time.Sleep(SyncRetryDelay) in the loop, then the next net.Dial
RetrySleep ==
  /\ dSt = "sleep"
  /\ sleeps' = sleeps + 1
  /\ dSt' = "dial"
  /\ UNCHANGED << syncRetryCount, retryCount, attempts, rounds >>
  /\ UNCHANGED dialRest

\* net.Dial succeeds: the loop is left and syncWithMaster runs
DialOk ==
  /\ dSt = "dial"
  /\ attempts' = attempts + 1
  /\ dSt' = "sync"
  /\ UNCHANGED << syncRetryCount, retryCount, sleeps, rounds >>
  /\ UNCHANGED dialRest

\* syncWithMaster returns its error
SyncFail ==
  /\ dSt = "sync"
  /\ dSt' = "syncFailed"
  /\ UNCHANGED << syncRetryCount, retryCount, attempts, sleeps, rounds >>
  /\ UNCHANGED dialRest

\* startReplica: the error is logged, time.Sleep(SyncRetryDelay), and the
\* loop starts again
OuterSleep ==
  /\ dSt \in {"failed", "syncFailed"}
  /\ rounds' = rounds + 1
  /\ dSt' = "outer"
  /\ UNCHANGED << syncRetryCount, retryCount, attempts, sleeps >>
  /\ UNCHANGED dialRest

InitDial ==
  /\ cfg = IdleCfg
  /\ WalInit
  /\ SegIdle
  /\ ServerIdle
  /\ IdIdle
  /\ NetIdle
  /\ MonIdle
  /\ FaultIdle
  /\ LockIdle
  /\ CodecIdle
  /\ HandlerIdle
  /\ PathIdle
  /\ ReplIdle
  /\ syncRetryCount \in SyncRetryCounts
  /\ retryCount = 0
  /\ attempts = 0
  /\ sleeps = 0
  /\ rounds = 0
  /\ dSt = "outer"

NextDial ==
  \/ MaintainStart
  \/ DialFail
  \/ RetrySleep
  \/ DialOk
  \/ SyncFail
  \/ OuterSleep

SpecDial == InitDial /\ [][NextDial]_vars

(***************************************************************************)
(* The master's WAL monitor: the WAL of the master appends to its current  *)
(* segment and rotates, monitorWALChanges polls the size of the segment    *)
(* with the highest id, the loop of the connection takes the signal.       *)
(***************************************************************************)
MaxSegLen == 2
MaxMonSegs == 2
MaxPolls == 3

\* what a step of the monitor and of the master's WAL leaves alone
monRest == << walVars, codecVars, handlerVars, pathVars, appVars, segVars, srvVars, idVars,
              netVars, dialVars, faultVars, lockVars >>

\* the segment with the highest id in the master's directory
CurrentSegment(fs) ==
  With(ListSegmentInfos(fs, MasterWalDir), LAMBDA segs :
    IF segs = <<>> THEN [id |-> 0, size |-> 0]
    ELSE [id |-> segs[Len(segs)].ID,
          size |-> Len(fs[Join(MasterWalDir, segs[Len(segs)].Name)])])

\* the master's WAL flushes bytes into its current segment
MasterGrow ==
  /\ \E c \in {CurrentSegment(mFs)} :
     /\ c.id # 0
     /\ c.size < MaxSegLen
     /\ mFs' = [mFs EXCEPT ![SegPath(MasterWalDir, c.id)] = Append(@, 7)]
  /\ UNCHANGED << rFs, up, down, peerOpen, rSt, rLast, rErr, rWrote, mSt, mLast, changes,
                  monLast >>
  /\ UNCHANGED << seen, polls >>
  /\ UNCHANGED monRest

\* the master's WAL has rotated and creates the file of its new segment
MasterRotate ==
  /\ \E c \in {CurrentSegment(mFs)} :
     /\ c.id < MaxMonSegs
     /\ c.size > 0
     /\ mFs' = WriteFile(mFs, SegPath(MasterWalDir, c.id + 1), <<>>)
  /\ UNCHANGED << rFs, up, down, peerOpen, rSt, rLast, rErr, rWrote, mSt, mLast, changes,
                  monLast >>
  /\ UNCHANGED << seen, polls >>
  /\ UNCHANGED monRest

\* one turn of the loop of monitorWALChanges with the size it has read: a
\* signal is put into the channel of capacity 1 unless one is there
monitorWALChanges(size, last, ch) ==
  IF size > last THEN [last |-> size, changes |-> 1]
  ELSE [last |-> last, changes |-> ch]

\* monitorWALChanges: one poll
MonitorPoll ==
  /\ polls < MaxPolls
  /\ polls' = polls + 1
  /\ seen' = CurrentSegment(mFs)
  /\ \E o \in {monitorWALChanges(getCurrentWALSize(mFs), monLast, changes)} :
     /\ monLast' = o.last
     /\ changes' = o.changes
  /\ UNCHANGED << mFs, rFs, up, down, peerOpen, rSt, rLast, rErr, rWrote, mSt, mLast >>
  /\ UNCHANGED monRest

\* processReplicaSync, case <-changes: the signal is taken
ChangeTaken ==
  /\ changes = 1
  /\ changes' = 0
  /\ UNCHANGED << mFs, rFs, up, down, peerOpen, rSt, rLast, rErr, rWrote, mSt, mLast,
                  monLast >>
  /\ UNCHANGED << seen, polls >>
  /\ UNCHANGED monRest

\* a replica has connected: startWALMonitor has started the goroutine with
\* lastSize 0 and an empty channel; the master's WAL has one segment
InitMonitor ==
  /\ cfg = IdleCfg
  /\ WalInit
  /\ SegIdle
  /\ ServerIdle
  /\ IdIdle
  /\ NetIdle
  /\ DialIdle
  /\ FaultIdle
  /\ LockIdle
  /\ CodecIdle
  /\ HandlerIdle
  /\ PathIdle
  /\ \E n \in 0..MaxSegLen : mFs = DirOf(MasterWalDir, (1 :> [i \in 1..n |-> 7]))
  /\ rFs = <<>>
  /\ up = <<>>
  /\ down = <<>>
  /\ peerOpen = TRUE
  /\ rSt = "cycle"
  /\ rLast = NoLast
  /\ rErr = <<>>
  /\ rWrote = {}
  /\ mSt = "idle"
  /\ mLast = NoLast
  /\ changes = 0
  /\ monLast = 0
  /\ seen = [id |-> 0, size |-> 0]
  /\ polls = 0

NextMonitor ==
  \/ MasterGrow
  \/ MasterRotate
  \/ MonitorPoll
  \/ ChangeTaken

SpecMonitor == InitMonitor /\ [][NextMonitor]_vars

(***************************************************************************)
(* Engine: the partition locks.  Callers run Set, Get, Delete, Clear and   *)
(* applyEntries concurrently; each step is one of the code's lock          *)
(* operations with the statements it guards.                               *)
(***************************************************************************)
lockRest == << walVars, codecVars, handlerVars, pathVars, replVars, appVars, segVars, srvVars,
               idVars, netVars, dialVars, monVars, faultVars >>

\* what Recover hands to applyEntries
ReplayLogs ==
  {<< [Operation |-> OperationSet, Key |-> <<97>>, Value |-> <<49>>],
      [Operation |-> OperationClear, Key |-> <<>>, Value |-> <<>>],
      [Operation |-> OperationDelete, Key |-> <<98>>, Value |-> <<>>] >>}

\* the entries the callers write: Set of one value, Delete, Clear
CallerEntries == {e \in Entries : e.Value \in {<<>>, <<49>>}}

\* the partition the code locks first for entry e
FirstShard(e) == IF e.Operation = OperationClear THEN 0 ELSE getPartition(e.Key)

\* a caller that is to apply the entries es
Applying(es) ==
  IF es = <<>> THEN Outside
  ELSE [Outside EXCEPT !.st = "lock", !.todo = es, !.shard = FirstShard(Head(es))]

\* an unlock that is left out
UnlockNever(m, i) == m

\* p.mu.Unlock() of partition i
Unlock(m, i) == [m EXCEPT ![i].w = 0]

\* a caller enters Set, Delete or Clear (the entry goes to wal.Write first),
\* Get, or applyEntries, which only the goroutine of NewEngine runs
OpStart(t) ==
  /\ eng[t].st = "idle"
  /\ \/ \E e \in CallerEntries :
          eng' = [eng EXCEPT ![t] = [Outside EXCEPT !.st = "wal", !.todo = <<e>>]]
     \/ \E k \in Keys :
          eng' = [eng EXCEPT ![t] = [Outside EXCEPT !.st = "rlock", !.shard = getPartition(k),
                                                    !.key = k]]
     \/ /\ t = 1
        /\ \E es \in ReplayLogs : eng' = [eng EXCEPT ![t] = Applying(es)]
  /\ UNCHANGED << pmu, pdata >>
  /\ UNCHANGED lockRest

\* e.wal.Write returns: with an error the operation returns it, otherwise the
\* partition is looked up
OpWalReturn(t) ==
  /\ eng[t].st = "wal"
  /\ \E ok \in BOOLEAN :
       eng' = [eng EXCEPT ![t] = IF ok THEN Applying(eng[t].todo) ELSE Outside]
  /\ UNCHANGED << pmu, pdata >>
  /\ UNCHANGED lockRest

\* p.mu.Lock()
PartitionLock(t) ==
  /\ eng[t].st = "lock"
  /\ pmu[eng[t].shard].w = 0
  /\ pmu[eng[t].shard].r = {}
  /\ pmu' = [pmu EXCEPT ![eng[t].shard].w = t]
  /\ eng' = [eng EXCEPT ![t].st = "held"]
  /\ UNCHANGED pdata
  /\ UNCHANGED lockRest

\* the statement under the lock and p.mu.Unlock(); Clear goes on to the next
\* partition, applyEntries to the next entry, the others return
PartitionUnlock(t) ==
  /\ eng[t].st = "held"
  /\ \E e \in {Head(eng[t].todo)} :
       /\ pdata' = IF e.Operation = OperationSet THEN PutKey(pdata, e.Key, e.Value)
                   ELSE IF e.Operation = OperationDelete THEN DeleteKey(pdata, e.Key)
                   ELSE [pdata EXCEPT ![eng[t].shard] = <<>>]
       /\ pmu' = Unlock(pmu, eng[t].shard)
       /\ eng' = [eng EXCEPT ![t] =
                    IF e.Operation = OperationClear /\ eng[t].shard + 1 < defaultNumShards
                    THEN [eng[t] EXCEPT !.st = "lock", !.shard = eng[t].shard + 1]
                    ELSE Applying(Tail(eng[t].todo))]
  /\ UNCHANGED lockRest

\* p.mu.RLock() of Get
PartitionRLock(t) ==
  /\ eng[t].st = "rlock"
  /\ pmu[eng[t].shard].w = 0
  /\ pmu' = [pmu EXCEPT ![eng[t].shard].r = @ \cup {t}]
  /\ eng' = [eng EXCEPT ![t].st = "rheld"]
  /\ UNCHANGED pdata
  /\ UNCHANGED lockRest

\* the read of Get and p.mu.RUnlock(); Get returns
PartitionRUnlock(t) ==
  /\ eng[t].st = "rheld"
  /\ pmu' = [pmu EXCEPT ![eng[t].shard].r = @ \ {t}]
  /\ eng' = [eng EXCEPT ![t] = [Outside EXCEPT !.got = Get(pdata, eng[t].key)]]
  /\ UNCHANGED pdata
  /\ UNCHANGED lockRest

\* NewEngine has made the partitions
InitLocks ==
  /\ cfg = IdleCfg
  /\ WalInit
  /\ MoreIdle
  /\ CodecIdle
  /\ HandlerIdle
  /\ PathIdle
  /\ ReplIdle

NextLocks ==
  \/ \E t \in Callers : OpStart(t)
  \/ \E t \in Callers : OpWalReturn(t)
  \/ \E t \in Callers : PartitionLock(t)
  \/ \E t \in Callers : PartitionUnlock(t)
  \/ \E t \in Callers : PartitionRLock(t)
  \/ \E t \in Callers : PartitionRUnlock(t)

SpecLocks == InitLocks /\ [][NextLocks]_vars

(***************************************************************************)
(* Properties.  The history variables tell where the bytes of each call's  *)
(* entry went: written[i] is one successful segment.Write.                 *)
(***************************************************************************)
\* the appends of the entry of call c to a segment
Recs(c) == {i \in DOMAIN written : written[i].call = c}

\* the bytes of append i are in the segment's file
OnDisk(i) ==
  /\ written[i].seg \in DOMAIN disk
  /\ Len(disk[written[i].seg].data) >= written[i].off + written[i].len

\* the bytes of append i are covered by a successful fsync of the segment's file
Synced(i) ==
  /\ written[i].seg \in DOMAIN disk
  /\ disk[written[i].seg].synced >= written[i].off + written[i].len

\* Service.Write of call c has returned / has returned nil
WriteReturned(c) == calls[c].st \in {"apply", "done"}
WriteOk(c) == WriteReturned(c) /\ calls[c].wres = Nil

\* C1 (durability on acknowledgement): when Service.Write has returned nil for an
\* entry, the bytes of that entry are covered by a successful Sync (buffer flush
\* and fsync) of the segment that holds them.
C1_Durability ==
  \A c \in Calls : WriteOk(c) => \E i \in Recs(c) : Synced(i)

\* C2 (WAL first): a step changes the partitions only as the last step of a call
\* whose Service.Write returned nil, and applies that call's entry; a call whose
\* Service.Write returned an error returns that error without such a step.
C2_WalFirst ==
  [][ /\ (partitions' # partitions /\ phase' = "running") =>
           \E c \in Calls : /\ calls[c].st = "apply"
                            /\ calls[c].wres = Nil
                            /\ calls'[c].st = "done"
                            /\ partitions' = ApplyOp(partitions, calls[c].e)
      /\ \A c \in Calls : calls'[c].wres # Nil =>
           /\ calls'[c].st = "done"
           /\ calls'[c].res = calls'[c].wres
           /\ (calls[c].st # "done" => partitions' = partitions) ]_vars

\* a Set whose WAL write failed has returned and its key is absent, next to a
\* call that succeeded
C2_Witness ==
  \E c, d \in Calls :
    /\ calls[c].st = "done" /\ calls[c].wres # Nil
    /\ calls[c].e.Operation = OperationSet
    /\ ~Get(partitions, calls[c].e.Key).exists
    /\ calls[d].st = "done" /\ calls[d].wres = Nil
    /\ phase = "running"

\* the calls whose entries lie in the file of segment seg, in file order
RECURSIVE CallsIn(_, _)
CallsIn(seg, i) ==
  IF i > Len(written) THEN <<>>
  ELSE (IF written[i].seg = seg /\ OnDisk(i) THEN <<written[i].call>> ELSE <<>>)
       \o CallsIn(seg, i + 1)

RECURSIVE CallsOfSegments(_)
CallsOfSegments(segs) ==
  IF segs = <<>> THEN <<>>
  ELSE CallsIn(Head(segs), 1) \o CallsOfSegments(Tail(segs))

\* the calls behind the entries that Recover returns, in the order of Recover
RecoveredCalls == CallsOfSegments(ListSegments(DOMAIN disk))

\* the entries of a sequence of calls
EntriesOf(cs) == [j \in DOMAIN cs |-> calls[cs[j]].e]

\* C3 (recovery order): Recover returns the entries in the order in which they
\* were appended to the batch (calls are numbered in that order): an entry never
\* comes before an entry that was appended earlier, in particular not before one
\* whose Write had returned before its own Write was invoked.
C3_RecoverOrder ==
  Recover(disk).err = Nil =>
    /\ Recover(disk).entries = EntriesOf(RecoveredCalls)
    /\ \A j, k \in DOMAIN RecoveredCalls :
         j < k => RecoveredCalls[j] <= RecoveredCalls[k]

\* call c is the last started call that touches key
Touches(c, key) ==
  /\ calls[c].st # "none"
  /\ (calls[c].e.Operation = OperationClear \/ calls[c].e.Key = key)

LastTouch(c, key) ==
  /\ Touches(c, key)
  /\ \A d \in Calls : Touches(d, key) => d <= c

\* what Get must return for key after the calls made so far
Expected(key) ==
  IF \E c \in Calls : LastTouch(c, key) /\ calls[c].e.Operation = OperationSet
  THEN [value |-> calls[CHOOSE c \in Calls : LastTouch(c, key)].e.Value, exists |-> TRUE]
  ELSE [value |-> <<>>, exists |-> FALSE]

\* every call made has returned nil and the first Close has returned nil
CleanShutdown ==
  /\ \A c \in Calls : calls[c].st \in {"none", "done"} /\ calls[c].res = Nil
  /\ closer[1].st = "done" /\ closer[1].res = Nil

C5_FateSharing ==
  \A f \in DOMAIN failedFlush :
    Cardinality(failedFlush[f].parts) >= 2 =>
      \A c, d \in failedFlush[f].parts :
        (WriteReturned(c) /\ WriteReturned(d)) =>
          /\ calls[c].wres # Nil
          /\ calls[d].wres # Nil
          /\ Head(calls[c].wres) = Head(calls[d].wres)

\* the appends of the entry of call c whose bytes are in a segment file
DiskRecs(c) == {i \in Recs(c) : OnDisk(i)}

\* C6 (a failed batch is not re-applied): once the Write of an entry has returned
\* an error, no later flush puts that entry into a segment file, and no entry is
\* in the segment files twice.
C6_NoReapply ==
  [][ \A c \in Calls :
        /\ Cardinality(DiskRecs(c)') <= 1
        /\ (WriteReturned(c) /\ calls[c].wres # Nil) => DiskRecs(c)' \subseteq DiskRecs(c)
    ]_vars

\* C7 (Write after Close): a Write invoked after Close has returned appends
\* nothing to a segment, starts no timer, and returns ErrWALClosed.
C7_WriteAfterClose ==
  \A c \in Calls :
    (calls[c].closed /\ calls[c].st # "none") =>
      /\ Recs(c) = {}
      /\ timers[c] = "none"
      /\ WriteReturned(c) => calls[c].wres = ErrWALClosed

\* the entry decoded from the bytes of append i in its segment file
EntryAt(i) == ReadEntry(disk[written[i].seg].data, written[i].off)

\* a call whose entry the service took and did not report as failed
Accepted(c) ==
  /\ calls[c].st # "none"
  /\ ~(WriteReturned(c) /\ calls[c].wres # Nil)

\* the entry of call c can be read back from a segment file
Readable(c) ==
  \E i \in DiskRecs(c) : EntryAt(i).err = Nil /\ EntryAt(i).entry = calls[c].e

\* what Close by caller k leaves behind
CloseLeaves(k) ==
  /\ \A c \in closer[k].took : Readable(c)
  /\ cur.buf = <<>>
  /\ cur.file # "open"
  /\ Recover(disk).err = Nil
  /\ Recover(disk).entries = EntriesOf(RecoveredCalls)
  /\ \A c \in Calls : Accepted(c) => \E j \in DOMAIN RecoveredCalls : RecoveredCalls[j] = c

\* C8 (Close drains the batch): when Close has returned nil (and no Write was
\* invoked afterwards), every entry that was in the batch when Close took the
\* lock is in a segment file, the buffer of the current segment is empty and its
\* file is not open, and Recover over the directory returns every entry
\* accepted before.
C8_CloseDrains ==
  \A k \in Closers :
    (/\ closer[k].st = "done" /\ closer[k].res = Nil
     /\ \A c \in Calls : ~calls[c].closed)
      => CloseLeaves(k)

\* a Close has returned nil after flushing a batch of two entries into two files
C8_Witness ==
  \E k \in Closers :
    /\ closer[k].st = "done" /\ closer[k].res = Nil
    /\ Cardinality(closer[k].took) = 2
    /\ Cardinality(DOMAIN disk) = 2
    /\ CloseLeaves(k)
    /\ \A c \in Calls : ~calls[c].closed

\* C9 (second Close): once a Close has returned, a further Close returns
\* ErrWALClosed in one step: no panic, no flush, no close of the segment.
C9_SecondClose ==
  [][ AnotherCloseReturned =>
        /\ phase' # "panicked"
        /\ \A k \in Closers :
             (closer[k].st = "idle" /\ closer'[k] # closer[k]) =>
               /\ closer'[k].st = "done"
               /\ closer'[k].res = ErrWALClosed
               /\ UNCHANGED << cur, disk, batch, written, flushDone, chans, quit >> ]_vars

\* a first Close that flushed an entry has returned nil, a second has returned
\* ErrWALClosed
C9_Witness ==
  /\ closer[1].st = "done" /\ closer[1].res = Nil /\ closer[1].took # {}
  /\ closer[2].st = "done" /\ closer[2].res = ErrWALClosed /\ closer[2].late
  /\ phase = "running"

\* the bytes of the files of the segments segs, one after the other
RECURSIVE DiskBytes(_)
DiskBytes(segs) ==
  IF segs = <<>> THEN <<>>
  ELSE disk[Head(segs)].data \o DiskBytes(Tail(segs))

\* the encodings of the entries es, one after the other
RECURSIVE EncodeAll(_)
EncodeAll(es) ==
  IF es = <<>> THEN <<>>
  ELSE WriteTo(Head(es)) \o EncodeAll(Tail(es))

\* the calls whose entries were written to a segment, in the order of writing
WrittenCalls == [i \in DOMAIN written |-> written[i].call]

TotalSize == Len(EncodeAll(EntriesOf(WrittenCalls)))

\* no flush has failed, a Close has returned, and every Write came before it
WritesThenClose ==
  /\ failedFlush = <<>>
  /\ \E k \in Closers : closer[k].st = "done" /\ closer[k].res # ErrWALClosed
  /\ \A c \in Calls : ~calls[c].closed

\* every successfully written entry is in exactly one file, whole, and the files
\* in ascending id order are the encoded entries in the order of writing, which
\* is the order of the calls
LogPreserved ==
  /\ \A c \in Calls : WriteOk(c) => Cardinality(DiskRecs(c)) = 1 /\ Readable(c)
  /\ \A i \in DOMAIN written : OnDisk(i)
  /\ \A i, j \in DOMAIN written : i < j => written[i].call < written[j].call
  /\ RecoveredCalls = WrittenCalls
  /\ DiskBytes(ListSegments(DOMAIN disk)) = EncodeAll(EntriesOf(WrittenCalls))

C11_RotatedImmutable ==
  [][ \A seg \in DOMAIN disk :
        seg < cur.id => (seg \in DOMAIN disk' /\ disk'[seg] = disk[seg]) ]_vars

\* an entry was written to a segment and, by a later flush, one to its successor
C11_Witness ==
  \E i, j \in DOMAIN written :
    /\ written[i].seg < written[j].seg
    /\ written[j].seg = cur.id
    /\ OnDisk(i) /\ OnDisk(j)
    /\ cfg.FlushingBatchSize = 1
    /\ phase = "running"

\* C12 (a truncated tail is corruption): when the file ends in a non-empty proper
\* prefix of an entry's encoding, ReadEntry on that prefix returns an error other
\* than io.EOF and ReadSegmentEntries returns an error.
C12_TruncatedTail ==
  codecSt = "readcut" =>
    /\ codecRead.entry.err \notin {Nil, EOF}
    /\ codecRead.segment.err # Nil

\* C14 (codec round trip): ReadFrom on the bytes WriteTo produced for an entry
\* returns that entry and consumes exactly those bytes, and the count WriteTo
\* returned is 1 + 4 + len(key), plus 4 + len(value) for a Set.
C14_RoundTrip ==
  codecSt = "read" =>
    /\ codecRead.entry.err = Nil
    /\ codecRead.entry.entry = codecEntry
    /\ codecRead.entry.pos = codecStart + codecCount
    /\ Len(codecFile) = codecStart + codecCount
    /\ codecCount = 1 + 4 + Len(codecEntry.Key)
                      + (IF codecEntry.Operation = OperationSet
                         THEN 4 + Len(codecEntry.Value) ELSE 0)
    /\ codecRead.segment.err = Nil
    /\ codecRead.segment.entries[Len(codecRead.segment.entries)] = codecEntry

\* a Set with an empty key and a value of two bytes has been read back from a
\* file that held an entry before it
C14_Witness ==
  /\ codecSt = "read"
  /\ codecEntry.Operation = OperationSet
  /\ codecEntry.Key = <<>>
  /\ Len(codecEntry.Value) = 2
  /\ codecStart > 0
  /\ codecRead.entry.err = Nil
  /\ Len(codecRead.segment.entries) = 2

\* C13 (a Recover error at startup is fatal): a process that has been started
\* over the directory and serves commands from its engine was started over a
\* directory on which Recover returns no error.
C13_RefuseToStart ==
  phase = "restarted" => Recover(disk).err = Nil

\* C15 (read-only replica): on a handler of type Replica a SET, DEL or CLEAR is
\* answered at once with an empty response and ErrReadOnlyReplica, no state of
\* the WAL or of the engine changes in that step and no engine call is made;
\* a GET or HELP is answered as a master's handler over the same partitions
\* answers it.
C15_ReadOnlyReplica ==
  [][ (hseq' # hseq /\ replicaType = Replica) =>
        /\ hst' = "done"
        /\ hcall' = 0
        /\ IF hcmd'.Type \in {CommandSet, CommandDel, CommandClear}
           THEN /\ hres' = [response |-> <<>>, err |-> ErrReadOnlyReplica]
                /\ UNCHANGED walVars
           ELSE LET m == handleCommand(Master, hcmd', partitions) IN
                /\ ~m.engine
                /\ hres' = [response |-> m.response, err |-> m.err] ]_vars

\* a replica has refused a DEL of a key that its engine holds
C15_Witness ==
  /\ replicaType = Replica
  /\ hst = "done"
  /\ hcmd.Type = CommandDel
  /\ hres = [response |-> <<>>, err |-> ErrReadOnlyReplica]
  /\ Get(partitions, hcmd.Args[1]).exists
  /\ \A c \in Calls : calls[c].st \in {"none", "done"}

\* the path is that of a file somewhere below the directory
Inside(walDir, path) ==
  /\ Rooted(Clean(walDir)) = Rooted(path)
  /\ Len(Elements(path)) > Len(Elements(Clean(walDir)))
  /\ Elements(Clean(walDir)) = SubSeq(Elements(path), 1, Len(Elements(Clean(walDir))))

\* C18 (safeReadSegment validates the path): for a segment name that does not
\* have the form wal-*.log, or whose joined and cleaned path is outside walDir,
\* safeReadSegment returns an error and no data.
C18_SafeRead ==
  (/\ pSt = "read"
   /\ \/ ~(HasPrefix(pSegName, WalPrefix) /\ HasSuffix(pSegName, LogSuffix))
      \/ ~Inside(pWalDir, Clean(Join(Clean(pWalDir), pSegName))))
  => (pRes.err # Nil /\ pRes.data = <<>>)

\* the replica's directory holds, for every segment of the master, a file of
\* the same name with the same bytes
Converged ==
  \A f \in DOMAIN mFs :
    /\ Join(ReplicaWalDir, Base(f)) \in DOMAIN rFs
    /\ rFs[Join(ReplicaWalDir, Base(f))] = mFs[f]

\* C16 (replica convergence): with the master's WAL unchanged and the replica
\* connected, from any replica directory whose files are prefixes of the
\* master's, the replica's directory eventually holds every segment of the
\* master with identical bytes.
C16_Convergence == <>Converged

\* a header line the replica has received that Fscanf cannot read as two
\* integers, or that the stream's end cuts short
BadHeader ==
  \/ Fscanf(down).st = "bad"
  \/ Fscanf(down).st = "more" /\ ~peerOpen /\ down # <<>>

\* the files that a step creates or changes
Written(before, after) ==
  {f \in DOMAIN after : f \notin DOMAIN before \/ after[f] # before[f]}

\* the path is that of a direct child of walDir named wal-<id>.log
IsSegmentPath(walDir, f) ==
  /\ DirectChild(walDir, f)
  /\ \E n \in {Base(f)} :
       /\ HasPrefix(n, WalPrefix)
       /\ HasSuffix(n, LogSuffix)
       /\ ParseSegmentName(n).err = Nil

\* C17 (replica path safety): every file a step of the receive loop creates
\* or overwrites is a direct child of walDir named wal-<id>.log and no file is
\* ever removed; a header that does not parse as two integers, or a segment
\* name that validateSegmentPath rejects, writes no file and ends the session
\* with an error.
C17_PathSafety ==
  [][/\ \A f \in Written(rFs, rFs') : IsSegmentPath(ReplicaWalDir, f)
     /\ DOMAIN rFs \subseteq DOMAIN rFs'
     /\ rSt = "receive" /\ BadHeader
          => rFs' = rFs /\ (rSt' # rSt => rSt' = "failed" /\ rErr' # Nil)
     /\ rErr' # Nil /\ rErr' # rErr /\ rErr'[1] = "invalid segment path"
          => rFs' = rFs /\ rSt' = "failed"]_vars

\* a session that wrote a segment and then ended on a header that did not parse
C17_Witness ==
  /\ rSt = "failed"
  /\ rErr # Nil
  /\ rErr[1] = "failed to read segment header"
  /\ rWrote # {}
  /\ mSt = "idle"


\* C19 (WAL disabled): with cfg.WAL.Enabled false, app.New starts the
\* application without a nil dereference: NewEngine does not panic.
C19_DisabledStarts == ~walEnabled => phase # "panicked"

\* every call the client has made has returned nil
AllSucceeded ==
  \A c \in Calls : calls[c].st \in {"none", "done"} /\ calls[c].res = Nil

\* C20 (the sharded engine is a single map): after a sequential run of Set,
\* Delete and Clear calls whose WAL writes succeeded, Get returns for every key
\* the value of the latest Set of the key, or absent when the latest call that
\* affects the key is a Delete or a Clear or when there is none, and every key
\* that is stored lies in the one partition its hash selects.
C20_SingleMap ==
  (phase = "running" /\ AllSucceeded) =>
    /\ \A key \in Keys : Get(partitions, key) = Expected(key)
    /\ \A i \in Shards : \A k \in DOMAIN partitions[i] : getPartition(k) = i

\* a Set of one key and then a Delete of the same key, both returned nil, with
\* the two keys of the model in different partitions
C20_Witness ==
  /\ phase = "running" /\ AllSucceeded
  /\ calls[1].st = "done" /\ calls[1].e.Operation = OperationSet
  /\ calls[2].st = "done" /\ calls[2].e.Operation = OperationDelete
  /\ calls[2].e.Key = calls[1].e.Key
  /\ \E k1, k2 \in Keys : getPartition(k1) # getPartition(k2)

\* a timer that will still fire and a goroutine that will take its expiry, or
\* a goroutine that has taken it and is on its way to flushBatch
FlushPending ==
  \/ \E c \in Calls : tg[c].st = "fired"
  \/ /\ timerActive
     /\ flushTimer # 0
     /\ timers[flushTimer] = "armed"
     /\ \E c \in Calls : \/ tg[c].st = "spawned"
                         \/ tg[c].st = "select" /\ tg[c].t = flushTimer

C22_CloseIdempotent ==
  [][(segClosedOk /\ segCloses' = segCloses + 1) =>
       (segRes' = Nil /\ cur' = cur /\ disk' = disk)]_vars

\* the handleConnection tasks that are live: spawned and not yet through
\* decrementConnCount
LiveTasks == {i \in DOMAIN conns : conns[i] \in {"spawned", "serving", "closed"}}

\* C23 (connection cap): connCount stays within 0..MaxConnections and equals
\* the number of live handleConnection tasks, and a connection accepted while
\* connCount equals MaxConnections is closed without being handled and leaves
\* connCount as it is.
C23_ConnectionCap ==
  /\ [](conns # <<>> => /\ connCount \in 0..maxConnections
                        /\ connCount = Cardinality(LiveTasks))
  /\ [][\A i \in DOMAIN conns :
         (conns[i] = "none" /\ conns'[i] # "none" /\ connCount = maxConnections)
           => (conns'[i] = "rejected" /\ connCount' = connCount /\ served' = served)]_vars
  /\ [][\A i \in DOMAIN conns : conns[i] = "rejected" => conns'[i] = "rejected"]_vars

\* a connection refused at the maximum after another one has come and gone
C23_Witness ==
  /\ conns # <<>>
  /\ maxConnections = 2
  /\ connCount = maxConnections
  /\ \E i, j \in DOMAIN conns : conns[i] = "rejected" /\ conns[j] = "done"

IsRotateError(err) == err # Nil /\ "ErrRotateSegment" \in {err[j] : j \in DOMAIN err}

\* some flush so far has failed in rotateSegment
RotationFailed ==
  \/ \E i \in DOMAIN failedFlush : IsRotateError(failedFlush[i].err)
  \/ \E k \in Closers : IsRotateError(closer[k].res)

IdsOf(infos) == [i \in DOMAIN infos |-> infos[i].ID]

\* C25 (creation order): the ids of successive NewSegment calls of one process
\* are strictly increasing, so that no two segments get the same id or file
\* name, and ListSegments returns the segments sorted by ascending id.
C25_CreationOrder ==
  /\ \A i, j \in DOMAIN createdIds : i < j => createdIds[i] < createdIds[j]
  /\ LET l == IdsOf(ListSegmentInfos(idFs, DataDir))
     IN \A i, j \in DOMAIN l : i < j => l[i] <= l[j]

\* the bytes of the master's segment seg
MasterData(seg) == mFs[Join(MasterWalDir, seg.Name)]

\* what the send rule puts on the wire for segment seg when the tracker is
\* (L, n): nothing, the bytes after the first n behind a header with their
\* number, or the whole segment behind a header with its length
RuleSent(L, n, seg) ==
  IF seg.ID < L THEN <<>>
  ELSE IF seg.ID = L
  THEN IF Len(MasterData(seg)) > n
       THEN Fprintf(L, Len(MasterData(seg)) - n)
              \o [i \in 1..(Len(MasterData(seg)) - n) |-> MasterData(seg)[n + i]]
       ELSE <<>>
  ELSE Fprintf(seg.ID, Len(MasterData(seg))) \o MasterData(seg)

\* what the rule puts on the wire for the segments segs, in their order
RECURSIVE RuleWire(_, _, _)
RuleWire(L, n, segs) ==
  IF segs = <<>> THEN <<>>
  ELSE RuleSent(L, n, Head(segs)) \o RuleWire(L, n, Tail(segs))

\* the tracker the rule leaves: the last segment above L with its length, or
\* L with n increased by the payload, or (L, n)
RuleTracker(L, n, segs) ==
  IF \E i \in DOMAIN segs : segs[i].ID > L
  THEN [id |-> segs[Len(segs)].ID, size |-> Len(MasterData(segs[Len(segs)]))]
  ELSE IF \E i \in DOMAIN segs : segs[i].ID = L /\ Len(MasterData(segs[i])) > n
  THEN [id |-> L, size |-> n + (Len(MasterData(segs[Len(segs)])) - n)]
  ELSE [id |-> L, size |-> n]

\* the tracker a pass of sendUpdatedSegments starts with: the state the
\* replica sent, or the one kept from the pass before
PassTracker ==
  IF mSt = "reading" THEN [id |-> Fscanf(up).a, size |-> Fscanf(up).b] ELSE mLast

\* a step is a pass of sendUpdatedSegments
IsPass ==
  \/ mSt = "select" /\ changes = 1 /\ changes' = 0
  \/ mSt = "reading" /\ mSt' = "select"

\* C26: in one pass of sendUpdatedSegments with tracker (L, n) the segments
\* below L are not sent, segment L is sent only when longer than n and then
\* from byte n on, the segments above L are sent in full in ascending order
\* of id, each behind a header that declares the number of payload bytes, and
\* the tracker becomes the last segment sent with the length reached
C26_SendRule ==
  [][IsPass =>
       /\ down' = down \o RuleWire(PassTracker.id, PassTracker.size,
                                   ListSegmentInfos(mFs, MasterWalDir))
       /\ mLast' = RuleTracker(PassTracker.id, PassTracker.size,
                               ListSegmentInfos(mFs, MasterWalDir))]_vars

\* a pass with tracker (1, 1) has sent the second byte of segment 1 and the
\* whole of segment 2
C26_Witness ==
  /\ mSt = "select"
  /\ down = Fprintf(1, 1) \o <<2>> \o Fprintf(2, 1) \o <<3>>
  /\ mLast = [id |-> 2, size |-> 1]

\* a step in which processReceivedSegment succeeds
Stored == rSt = "receive" /\ rSt' = "receive" /\ Len(down') < Len(down)

\* the header at the front of what has arrived
Header == readSegmentHeader(down, peerOpen)

\* the local file of segment id, nothing when there is none
LocalFile(fs, id) ==
  IF SegPath(ReplicaWalDir, id) \in DOMAIN fs THEN fs[SegPath(ReplicaWalDir, id)] ELSE <<>>

\* C27: after processReceivedSegment(id, payload) succeeds the local file of
\* id is the previous contents followed by the payload when id is the
\* replica's lastSegmentID and the file existed, the payload alone otherwise,
\* and the tracker is (id, length of that file)
C27_StoreRule ==
  [][Stored =>
       \E h \in {Header} :
         /\ Len(h.rest) >= h.size
         /\ SegPath(ReplicaWalDir, h.id) \in DOMAIN rFs'
         /\ rFs'[SegPath(ReplicaWalDir, h.id)] =
              (IF h.id = rLast.id THEN LocalFile(rFs, h.id) ELSE <<>>)
                \o SubSeq(h.rest, 1, h.size)
         /\ rLast' = [id |-> h.id, size |-> Len(rFs'[SegPath(ReplicaWalDir, h.id)])]]_vars

\* the last n bytes of a sequence
Tail_n(q, n) == SubSeq(q, Len(q) - n + 1, Len(q))

\* C29: for a header with id and size the replica takes exactly size payload
\* bytes from the connection, also when they arrive in several pieces, stores
\* exactly those bytes, and parses the next header from the first byte
\* behind the payload
C29_ExactPayload ==
  [][Stored =>
       \E h \in {Header} :
         /\ Len(h.rest) >= h.size
         /\ down' = SubSeq(h.rest, h.size + 1, Len(h.rest))
         /\ Len(LocalFile(rFs', h.id)) >= h.size
         /\ Tail_n(LocalFile(rFs', h.id), h.size) = SubSeq(h.rest, 1, h.size)]_vars

\* q is a prefix of w
IsPrefix(q, w) == Len(q) <= Len(w) /\ q = SubSeq(w, 1, Len(q))

\* C28 (prefix safety): at every moment each segment file of the replica's
\* directory is a byte prefix of the master's file with the same id: a
\* partial payload is appended at the length the replica's file has, and a
\* full segment is never appended to bytes already stored
C28_PrefixSafety ==
  \A f \in DOMAIN rFs :
    /\ Join(MasterWalDir, Base(f)) \in DOMAIN mFs
    /\ IsPrefix(rFs[f], mFs[Join(MasterWalDir, Base(f))])

\* C30 (reconnect budget): a call of maintainMasterConnection in which every
\* dial fails returns its error after at most syncRetryCount dial attempts,
\* with a sleep of syncRetryDelay between consecutive attempts
C30_ReconnectBudget ==
  dSt = "failed" => (attempts <= syncRetryCount /\ sleeps = attempts - 1)

\* the error of a flushBatch whose rotation failed in the Close of the old
\* segment
IsCloseFailure(err) ==
  Len(err) >= 2 /\ err[1] = "ErrRotateSegment" /\ err[2] = "ErrCloseSegment"

\* the failed flushes whose rotation failed in the Close of the old segment
CloseFailures == {f \in DOMAIN failedFlush : IsCloseFailure(failedFlush[f].err)}

\* Write call c has returned the error err of a flush: as it is, or wrapped by
\* the waiter
Received(c, err) ==
  calls[c].wres = err \/ calls[c].wres = Wrap("ErrFlushWAL", err)

\* C31: when rotateSegment fails in closing the old segment, flushBatch returns
\* the error, every Write that takes part in the batch receives it, no new
\* segment file is created and currentSegment is still the old segment
C31_RotateCloseFailure ==
  /\ [](\A f \in CloseFailures :
          \A c \in failedFlush[f].parts : WriteReturned(c) => Received(c, failedFlush[f].err))
  /\ [][(/\ Len(failedFlush') > Len(failedFlush)
         /\ IsCloseFailure(failedFlush'[Len(failedFlush')].err))
          => /\ written' # <<>>
             /\ cur'.id = written'[Len(written')].seg
             /\ cur'.file # "nil"
             /\ \A i \in DOMAIN disk' : i <= cur'.id]_vars

\* C32: whenever the size of the master's current segment has grown between
\* two consecutive polls of monitorWALChanges, also that of a new segment
\* smaller than the one before it, a signal is raised or is pending after the
\* second poll; the poll does not block on a full channel
C32_GrowthSignalled ==
  [][(/\ polls' = polls + 1
      /\ polls >= 1
      /\ CurrentSegment(mFs).id = seen.id
      /\ CurrentSegment(mFs).size > seen.size)
       => changes' = 1]_vars

\* a step during which a thread holds batchMu in the middle of its critical
\* section and that is not a step of that thread
LockHeldByAnother == mu # <<>> /\ mu' = mu

\* C33 (single writer): the batch, the current segment and the list of
\* waiters are changed only by the thread that holds batchMu, whether the
\* step is one of Write, of the timer handler, of its shutdown branch or of
\* Close
C33_SingleWriter ==
  [][LockHeldByAnother => (batch' = batch /\ cur' = cur /\ flushDone' = flushDone)]_vars

LogEntries == [i \in DOMAIN written |-> calls[written[i].call].e]

\* C35 (memory and log agree under concurrency): once concurrent Set, Delete
\* and Clear calls have all returned success, the state in memory is the
\* state that replaying the WAL in log order gives
C35_MemoryLogAgreement ==
  (phase = "running" /\ AllSucceeded) =>
    partitions = applyEntries(EmptyPartitions, LogEntries)

\* a notifyWaiters is blocked in a send on a waiter's channel: that of a
\* thread that holds batchMu, or that of the shutdown branch
NotifyBlocked == mu # <<>> \/ \E c \in Calls : tg[c].st = "quit" /\ tg[c].snap # <<>>

\* C36: no interleaving of Write, timer expiry and Close leaves a thread
\* blocked: notifyWaiters never blocks on the channel of a waiter (a channel
\* receives at most one notification), least of all with batchMu held, a
\* Write that has entered the service returns, and a Close that has started
\* takes the lock and returns
C36_NoBlockedThread ==
  /\ []~NotifyBlocked
  /\ \A c \in Calls :
       (calls[c].st \in {"wait", "blocked"})
         ~> (calls[c].st \in {"apply", "done"} \/ phase # "running")
  /\ \A k \in Closers :
       (closer[k].st = "lock") ~> (closer[k].st = "done" \/ phase # "running")

\* C37 (concurrent Close): when two threads call Close on one Service at the
\* same time the quit channel is closed once and nothing panics; one call
\* flushes the final batch and closes the segment, the other returns
\* ErrWALClosed
C37_ConcurrentClose ==
  /\ phase # "panicked"
  /\ (\A k \in Closers : closer[k].st = "done") =>
       Cardinality({k \in Closers : closer[k].res # ErrWALClosed}) = 1

\* C38: whatever tail report the replica sends, a negative size, a size
\* beyond the master's file or an id the master does not have, the slice
\* data[lastSegmentSize:] of processSingleSegment stays within bounds and the
\* master does not panic
C38_SliceInBounds == mSt # "panicked"

\* the frame of the whole of the master's segment seg
FullFrame(seg) == Fprintf(seg.ID, Len(MasterData(seg))) \o MasterData(seg)

\* C39: a pass of sendUpdatedSegments never moves the connection's tracker
\* past a segment it has not sent completely: every segment of the master
\* whose id lies above the tracker the pass started with and below the
\* tracker it leaves has been put on the connection in full during the pass
C39_GapFree ==
  [][IsPass =>
       \A i \in DOMAIN ListSegmentInfos(mFs, MasterWalDir) :
         (/\ PassTracker.id < ListSegmentInfos(mFs, MasterWalDir)[i].ID
          /\ ListSegmentInfos(mFs, MasterWalDir)[i].ID < mLast'.id)
           => Contains(SubSeq(down', Len(down) + 1, Len(down')),
                       FullFrame(ListSegmentInfos(mFs, MasterWalDir)[i]))]_vars

\* the partitions whose lock caller t holds
HeldBy(t) == {i \in Shards : pmu[i].w = t \/ t \in pmu[i].r}

\* C40: a caller of Set, Get, Delete, Clear or applyEntries holds at most one
\* partition lock at any time, holds none when it is outside the engine,
\* waits for the WAL or waits for a partition lock, and whoever holds a
\* partition lock is at the statement under that lock and not waiting, so the
\* callers cannot deadlock on the partitions
C40_EngineLockSafety ==
  /\ \A t \in Callers :
       /\ Cardinality(HeldBy(t)) <= 1
       /\ eng[t].st \in {"idle", "wal", "lock", "rlock"} => HeldBy(t) = {}
       /\ eng[t].st \in {"held", "rheld"} => HeldBy(t) = {eng[t].shard}
  /\ \A i \in Shards :
       /\ pmu[i].w # 0 => eng[pmu[i].w].st = "held" /\ pmu[i].r = {}
       /\ \A t \in pmu[i].r : eng[t].st = "rheld"

\* one caller is clearing the last partition under its lock after it has
\* released the others, while another waits for the WAL and a partition
\* holds data again
C40_Witness ==
  /\ \E t \in Callers :
       /\ eng[t].st = "held"
       /\ eng[t].shard = defaultNumShards - 1
       /\ Head(eng[t].todo).Operation = OperationClear
  /\ \E t \in Callers : eng[t].st = "wal"
  /\ pdata # EmptyPartitions

====
